---- MODULE Spec2Model ----
(***************************************************************************)
(* Scoring and synthesis pipeline of the Maui travel agent:                *)
(*   core/weather.py   analyze_weather, _score_weather_window              *)
(*   core/flights.py   analyze_flights                                     *)
(*   core/hotels.py    evaluate_hotels, _score_hotel                       *)
(*   core/synthesis.py synthesize_recommendation and its helpers           *)
(*   tools/mcp_server.py synthesize_travel_recommendation (the pipeline)   *)
(*                                                                         *)
(* Representation.                                                         *)
(*  - A calendar date is a day number >= 1; ISO date strings compare       *)
(*    lexicographically exactly as their day numbers compare.  The i-th    *)
(*    forecast day (Python index i) carries date i + 1, as the forecast    *)
(*    providers emit consecutive days.                                     *)
(*  - A window string "a to b" is the pair <<a, b>>; the sentinel "N/A"    *)
(*    is the empty tuple, the only window string without " to ".           *)
(*  - Python floats are exact rationals kept as scaled integers: weather   *)
(*    scores in tenths (WScale), hotel scores in hundredths (HScale),      *)
(*    hotel ratings in tenths of a star.                                   *)
(*  - Python sequences are 0-based; Py(s, i) reads Python index i, a       *)
(*    negative index counting from the end.  An index outside              *)
(*    -len(s) .. len(s)-1 raises IndexError: the step that meets one       *)
(*    ends the run at pc = "raised".                                       *)
(***************************************************************************)
EXTENDS Integers, Sequences, FiniteSets, TLC

VARIABLES profile, forecasts, flights_raw, hotels_raw,
          weather, scan, flights, hotels, recommendation, pc,
          tool, user_id, response, rng, check_in

vars == <<profile, forecasts, flights_raw, hotels_raw,
          weather, scan, flights, hotels, recommendation, pc,
          tool, user_id, response, rng, check_in>>

\* ------------------------------------------------------------------ bounds
MaxDays == 5

MaxTrip == 3

MaxFlights == 6

MaxHotels == 3

\* Degrees a day's high is moved further out of the preferred range
MaxDelta == 3

\* ---------------------------------------------------------------- helpers
\* s[i] raises IndexError unless -len(s) <= i < len(s)
ValidIndex(s, i) == 0 - Len(s) <= i /\ i < Len(s)

\* s[i] for a valid index: a negative i counts from the end
Py(s, i) == s[(IF i < 0 THEN i + Len(s) ELSE i) + 1]

\* A slice bound: a negative bound counts from the end, and the result is
\* clamped to 0 .. len(s)
SliceBound(s, i) ==
    LET j == IF i < 0 THEN i + Len(s) ELSE i
    IN  IF j < 0 THEN 0 ELSE IF j > Len(s) THEN Len(s) ELSE j

\* Python slice s[i : j]
Slice(s, i, j) ==
    LET lo == SliceBound(s, i)
        hi == SliceBound(s, j)
    IN  IF hi <= lo THEN <<>> ELSE [k \in 1..(hi - lo) |-> s[lo + k]]

Min2(a, b) == IF a <= b THEN a ELSE b

Max2(a, b) == IF a >= b THEN a ELSE b

RECURSIVE SumSeq(_)
SumSeq(s) == IF s = <<>> THEN 0 ELSE Head(s) + SumSeq(Tail(s))

\* Python floor division a // b for b > 0 (TLA+ \div floors as well)
FloorDiv(a, b) == a \div b

\* ------------------------------------------------------------ string model
NA == <<>>

WindowStr(a, b) == <<a, b>>

\* " to " in w
HasTo(w) == Len(w) = 2

\* The empty string "": sorts before every ISO date
EmptyStr == 0

\* The narrative is kept as its list of clauses (summary_parts), each a
\* record [clause, n, a, b] of the clause's kind and the numbers it cites.
Clause(c, n, a, b) == [clause |-> c, n |-> n, a |-> a, b |-> b]

\* ---------------------------------------------------------------- scaling
WScale == 10

HScale == 100

\* ------------------------------------------------- _score_weather_window
\* Variant: the rain penalty already applies at 40 percent.
DayScoreRainFrom40(day, p) ==
    (IF p.preferred_temp_min_f <= day.high_f /\ day.high_f <= p.preferred_temp_max_f
        THEN 10 * WScale
        ELSE - (IF day.high_f < p.preferred_temp_min_f
                   THEN p.preferred_temp_min_f - day.high_f
                   ELSE day.high_f - p.preferred_temp_max_f) * 15)
    + (IF day.is_storm_risk THEN - 5 * p.comfort_priority * WScale ELSE 0)
    + (IF day.precipitation_pct >= 40 THEN - 6 * p.comfort_priority ELSE 0)
    + (IF day.wind_mph > 20 THEN - 5 * WScale
       ELSE IF day.wind_mph < 10 THEN 2 * WScale ELSE 0)

\* Variant: the cold-side difference is taken with the wrong sign.
DayScoreColdSign(day, p) ==
    (IF p.preferred_temp_min_f <= day.high_f /\ day.high_f <= p.preferred_temp_max_f
        THEN 10 * WScale
        ELSE - (IF day.high_f < p.preferred_temp_min_f
                   THEN day.high_f - p.preferred_temp_min_f
                   ELSE day.high_f - p.preferred_temp_max_f) * 15)
    + (IF day.is_storm_risk THEN - 5 * p.comfort_priority * WScale ELSE 0)
    + (IF day.precipitation_pct > 40 THEN - 6 * p.comfort_priority ELSE 0)
    + (IF day.wind_mph > 20 THEN - 5 * WScale
       ELSE IF day.wind_mph < 10 THEN 2 * WScale ELSE 0)

\* Variant: the rain penalty is an elif of the storm penalty.
DayScoreStormElifRain(day, p) ==
    (IF p.preferred_temp_min_f <= day.high_f /\ day.high_f <= p.preferred_temp_max_f
        THEN 10 * WScale
        ELSE - (IF day.high_f < p.preferred_temp_min_f
                   THEN p.preferred_temp_min_f - day.high_f
                   ELSE day.high_f - p.preferred_temp_max_f) * 15)
    + (IF day.is_storm_risk THEN - 5 * p.comfort_priority * WScale
       ELSE IF day.precipitation_pct > 40 THEN - 6 * p.comfort_priority ELSE 0)
    + (IF day.wind_mph > 20 THEN - 5 * WScale
       ELSE IF day.wind_mph < 10 THEN 2 * WScale ELSE 0)

\* One iteration of the loop body of _score_weather_window (tenths).
DayScore(day, p) ==
    (IF p.preferred_temp_min_f <= day.high_f /\ day.high_f <= p.preferred_temp_max_f
        THEN 10 * WScale
        ELSE - (IF day.high_f < p.preferred_temp_min_f
                   THEN p.preferred_temp_min_f - day.high_f
                   ELSE day.high_f - p.preferred_temp_max_f) * 15)
    + (IF day.is_storm_risk THEN - 5 * p.comfort_priority * WScale ELSE 0)
    + (IF day.precipitation_pct > 40 THEN - 6 * p.comfort_priority ELSE 0)
    + (IF day.wind_mph > 20 THEN - 5 * WScale
       ELSE IF day.wind_mph < 10 THEN 2 * WScale ELSE 0)

RECURSIVE ScoreLoop(_, _, _)
ScoreLoop(window, p, score) ==
    IF window = <<>> THEN score
    ELSE ScoreLoop(Tail(window), p, score + DayScore(Head(window), p))

_score_weather_window(window, p) == ScoreLoop(window, p, 0)

\* -------------------------------------------------------- analyze_weather
\* Sentinels best_score = -999, worst_score = 999 (tenths)
BestSentinel == -9990

WorstSentinel == 9990

\* The for loop "for i in range(n - trip_len)": iterations i .. stop-1,
\* acc = [best_score, worst_score, best_start, worst_start].
RECURSIVE ScanLoop(_, _, _, _, _)
ScanLoop(fc, p, i, stop, acc) ==
    IF i >= stop THEN acc
    ELSE LET score == _score_weather_window(
                          Slice(fc, i, i + p.trip_length_nights), p)
             a1 == IF score > acc.best_score
                      THEN [acc EXCEPT !.best_score = score, !.best_start = i]
                      ELSE acc
             a2 == IF score < a1.worst_score
                      THEN [a1 EXCEPT !.worst_score = score, !.worst_start = i]
                      ELSE a1
         IN  ScanLoop(fc, p, i + 1, stop, a2)

\* Variant: the scan runs two starts further, onto a window cut short by
\* the end of the forecast.
WindowSearchOvershoot(fc, p) ==
    LET n == Len(fc)
        trip_len == p.trip_length_nights
    IN  IF n <= trip_len
           THEN [scanned |-> FALSE, best_score |-> 0, worst_score |-> 0,
                 best_start |-> 0, worst_start |-> 0]
           ELSE ScanLoop(fc, p, 0, n - trip_len + 2,
                         [scanned |-> TRUE,
                          best_score |-> BestSentinel,
                          worst_score |-> WorstSentinel,
                          best_start |-> 0, worst_start |-> 0])

\* Variant: only a forecast strictly shorter than the trip skips the scan,
\* and the scan covers every start 0 .. n - trip_len.
WindowSearchScanEqual(fc, p) ==
    LET n == Len(fc)
        trip_len == p.trip_length_nights
    IN  IF n < trip_len
           THEN [scanned |-> FALSE, best_score |-> 0, worst_score |-> 0,
                 best_start |-> 0, worst_start |-> 0]
           ELSE ScanLoop(fc, p, 0, n - trip_len + 1,
                         [scanned |-> TRUE,
                          best_score |-> BestSentinel,
                          worst_score |-> WorstSentinel,
                          best_start |-> 0, worst_start |-> 0])

\* Locals of analyze_weather after the window search (lines 414-434).
\* scanned = FALSE when the n <= trip_len branch was taken.
WindowSearch(fc, p) ==
    LET n == Len(fc)
        trip_len == p.trip_length_nights
    IN  IF n <= trip_len
           THEN [scanned |-> FALSE, best_score |-> 0, worst_score |-> 0,
                 best_start |-> 0, worst_start |-> 0]
           ELSE ScanLoop(fc, p, 0, n - trip_len,
                         [scanned |-> TRUE,
                          best_score |-> BestSentinel,
                          worst_score |-> WorstSentinel,
                          best_start |-> 0, worst_start |-> 0])

NoScan == [scanned |-> FALSE, best_score |-> 0, worst_score |-> 0,
           best_start |-> 0, worst_start |-> 0]

\* sum(1 for f in s if f.precipitation_pct > 40)
CountRainy(s) == Cardinality({k \in 1..Len(s) : s[k].precipitation_pct > 40})

\* sum(1 for f in s if f.is_storm_risk)
CountStorm(s) == Cardinality({k \in 1..Len(s) : s[k].is_storm_risk})

\* sum(1 for f in s if f.high_f > limit)
CountAbove(s, limit) == Cardinality({k \in 1..Len(s) : s[k].high_f > limit})

RECURSIVE SumHigh(_)
SumHigh(fc) == IF fc = <<>> THEN 0 ELSE Head(fc).high_f + SumHigh(Tail(fc))

RECURSIVE SumLow(_)
SumLow(fc) == IF fc = <<>> THEN 0 ELSE Head(fc).low_f + SumLow(Tail(fc))

\* Variant: the empty result is built without its narrative (summary = "").
EmptyWeatherSummaryNoNarrative ==
    [period |-> NA, avg_high_f |-> 0, avg_low_f |-> 0,
     rainy_days |-> 0, storm_risk_days |-> 0,
     best_window |-> NA, worst_window |-> NA,
     summary |-> <<>>,
     daily_forecasts |-> <<>>]

\* Lines 389-400: the result for an empty forecast
EmptyWeatherSummary ==
    [period |-> NA, avg_high_f |-> 0, avg_low_f |-> 0,
     rainy_days |-> 0, storm_risk_days |-> 0,
     best_window |-> NA, worst_window |-> NA,
     summary |-> <<Clause("No forecast data available.", 0, 0, 0)>>,
     daily_forecasts |-> <<>>]

\* Variant: the day counts are taken over the best window only.
analyze_weather_CountsOverBestWindow(fc, p) ==
    IF fc = <<>>
    THEN EmptyWeatherSummary
    ELSE
      LET n == Len(fc)
          trip_len == p.trip_length_nights
          s == WindowSearch(fc, p)
          best == Slice(fc, s.best_start, s.best_start + trip_len)
          best_window_start == Py(fc, s.best_start).date
          best_window_end ==
              Py(fc, Min2(s.best_start + trip_len - 1, n - 1)).date
          worst_window_start == Py(fc, s.worst_start).date
          worst_window_end ==
              Py(fc, Min2(s.worst_start + trip_len - 1, n - 1)).date
      IN [period |-> WindowStr(Py(fc, 0).date, Py(fc, n - 1).date),
          avg_high_f |-> FloorDiv(SumHigh(fc), n),
          avg_low_f |-> FloorDiv(SumLow(fc), n),
          rainy_days |-> CountRainy(best),
          storm_risk_days |-> CountStorm(best),
          best_window |-> WindowStr(best_window_start, best_window_end),
          worst_window |-> WindowStr(worst_window_start, worst_window_end),
          summary |->
             <<Clause("averages", n, FloorDiv(SumHigh(fc), n),
                      FloorDiv(SumLow(fc), n))>>
             \o (IF CountStorm(best) > 0
                    THEN <<Clause("storm_warning", CountStorm(best),
                                  Py(fc, s.worst_start).date, 0)>>
                    ELSE <<>>)
             \o <<Clause("best_window", 0, best_window_start, best_window_end)>>,
          daily_forecasts |-> fc]

analyze_weather(fc, p) ==
    IF fc = <<>>
    THEN EmptyWeatherSummary
    ELSE
      LET n == Len(fc)
          trip_len == p.trip_length_nights
          s == WindowSearch(fc, p)
          best_window_start == Py(fc, s.best_start).date
          best_window_end ==
              Py(fc, Min2(s.best_start + trip_len - 1, n - 1)).date
          worst_window_start == Py(fc, s.worst_start).date
          worst_window_end ==
              Py(fc, Min2(s.worst_start + trip_len - 1, n - 1)).date
      IN [period |-> WindowStr(Py(fc, 0).date, Py(fc, n - 1).date),
          avg_high_f |-> FloorDiv(SumHigh(fc), n),
          avg_low_f |-> FloorDiv(SumLow(fc), n),
          rainy_days |-> CountRainy(fc),
          storm_risk_days |-> CountStorm(fc),
          best_window |-> WindowStr(best_window_start, best_window_end),
          worst_window |-> WindowStr(worst_window_start, worst_window_end),
          summary |->
             <<Clause("averages", n, FloorDiv(SumHigh(fc), n),
                      FloorDiv(SumLow(fc), n))>>
             \o (IF CountStorm(fc) > 0
                    THEN <<Clause("storm_warning", CountStorm(fc),
                                  Py(fc, s.worst_start).date, 0)>>
                    ELSE <<>>)
             \o <<Clause("best_window", 0, best_window_start, best_window_end)>>,
          daily_forecasts |-> fc]

\* The four subscripts of lines 436-439: analyze_weather raises IndexError
\* when one of them lies outside the forecast.
analyze_weather_raises(fc, p) ==
    /\ fc # <<>>
    /\ LET n == Len(fc)
           trip_len == p.trip_length_nights
           s == WindowSearch(fc, p)
       IN  \/ ~ValidIndex(fc, s.best_start)
           \/ ~ValidIndex(fc, Min2(s.best_start + trip_len - 1, n - 1))
           \/ ~ValidIndex(fc, s.worst_start)
           \/ ~ValidIndex(fc, Min2(s.worst_start + trip_len - 1, n - 1))

\* -------------------------------------------------------- analyze_flights
RECURSIVE MinOf(_)
MinOf(s) == IF Len(s) = 1 THEN s[1] ELSE Min2(Head(s), MinOf(Tail(s)))

RECURSIVE MaxOf(_)
MaxOf(s) == IF Len(s) = 1 THEN s[1] ELSE Max2(Head(s), MaxOf(Tail(s)))

Prices(fl) == [k \in 1..Len(fl) |-> fl[k].price_usd]

\* average = sum(prices) // len(prices)
AveragePrice(fl) == FloorDiv(SumSeq(Prices(fl)), Len(fl))

\* Variant: the hard-ceiling count is reported ahead of the soft-ceiling one.
BudgetNarrativeHardFirst(fl, p) ==
    LET UnderSoft(f) == f.price_usd <= p.airfare_budget_soft
        UnderHard(f) == f.price_usd <= p.airfare_budget_hard
        under_soft == SelectSeq(fl, UnderSoft)
        under_hard == SelectSeq(fl, UnderHard)
    IN  IF under_hard # <<>>
        THEN <<Clause("under_hard", Len(under_hard),
                      p.airfare_budget_soft, p.airfare_budget_hard)>>
        ELSE IF under_soft # <<>>
        THEN <<Clause("under_soft", Len(under_soft), p.airfare_budget_soft, 0)>>
        ELSE <<Clause("all_exceed", 0, p.airfare_budget_hard, 0)>>

\* Lines 168-169 and 180-196: the budget sentence of the narrative.
BudgetNarrative(fl, p) ==
    LET UnderSoft(f) == f.price_usd <= p.airfare_budget_soft
        UnderHard(f) == f.price_usd <= p.airfare_budget_hard
        under_soft == SelectSeq(fl, UnderSoft)
        under_hard == SelectSeq(fl, UnderHard)
    IN  IF under_soft # <<>>
        THEN <<Clause("under_soft", Len(under_soft), p.airfare_budget_soft, 0)>>
        ELSE IF under_hard # <<>>
        THEN <<Clause("under_hard", Len(under_hard),
                      p.airfare_budget_soft, p.airfare_budget_hard)>>
        ELSE <<Clause("all_exceed", 0, p.airfare_budget_hard, 0)>>

\* Variant: the caveat cites the cheapest flight of the whole list.
RedEyeCaveatCheapestOverall(fl, p) ==
    LET RedEye(f) == f.is_red_eye
        red_eyes == SelectSeq(fl, RedEye)
    IN  IF red_eyes # <<>> /\ p.comfort_priority >= 7
        THEN <<Clause("red_eye", 0, MinOf(Prices(fl)), 0)>>
        ELSE <<>>

\* Lines 198-205: the red-eye caveat of the narrative.
RedEyeCaveat(fl, p) ==
    LET RedEye(f) == f.is_red_eye
        red_eyes == SelectSeq(fl, RedEye)
    IN  IF red_eyes # <<>> /\ p.comfort_priority >= 7
        THEN <<Clause("red_eye", 0, MinOf(Prices(red_eyes)), 0)>>
        ELSE <<>>

analyze_flights(fl, p) ==
    IF fl = <<>>
    THEN [origin |-> "N/A", search_window |-> NA,
          cheapest_price |-> 0, average_price |-> 0,
          options |-> <<>>,
          summary |-> <<Clause("No flights found.", 0, 0, 0)>>]
    ELSE
      LET prices == Prices(fl)
          cheapest == MinOf(prices)
          average == AveragePrice(fl)
          head == <<Clause("found", Len(fl), cheapest, MaxOf(prices))>>
          budget == BudgetNarrative(fl, p)
          redeye == RedEyeCaveat(fl, p)
      IN [origin |-> fl[1].airline,
          search_window |-> WindowStr(fl[1].departure_date,
                                      fl[Len(fl)].departure_date),
          cheapest_price |-> cheapest,
          average_price |-> average,
          options |-> fl,
          summary |-> head \o budget \o redeye]

\* ---------------------------------------------------------- _score_hotel
\* Hundredths of a point; hotel.rating is in tenths of a star.
\* Variant: a rate equal to hotel_budget_max counts as over budget.
BudgetTermStrictMax(hotel, p) ==
    IF p.hotel_budget_min <= hotel.nightly_rate
       /\ hotel.nightly_rate < p.hotel_budget_max
    THEN 30 * HScale
    ELSE IF hotel.nightly_rate < p.hotel_budget_min
    THEN 10 * HScale
    ELSE Max2(0, 25 * HScale - (hotel.nightly_rate - p.hotel_budget_max) * 30)

BudgetTerm(hotel, p) ==
    IF p.hotel_budget_min <= hotel.nightly_rate
       /\ hotel.nightly_rate <= p.hotel_budget_max
    THEN 30 * HScale
    ELSE IF hotel.nightly_rate < p.hotel_budget_min
    THEN 10 * HScale
    ELSE Max2(0, 25 * HScale - (hotel.nightly_rate - p.hotel_budget_max) * 30)

_score_hotel(hotel, p) ==
    BudgetTerm(hotel, p)
    + (IF hotel.brand \in p.preferred_hotel_brands THEN 20 * HScale ELSE 0)
    + Max2(0, (hotel.rating - 30) * 125)
    + (IF hotel.has_storm_discount /\ p.comfort_priority >= 7
          THEN - 15 * HScale ELSE 0)

\* -------------------------------------------------------- evaluate_hotels
\* scored_hotels.sort(key=lambda x: x[0], reverse=True): Python's sort is
\* stable, also under reverse=True.  Insert x after every element whose
\* key is >= its own.
\* Variant: an unstable sort that puts x before elements of equal key.
RECURSIVE InsertDescUnstable(_, _)
InsertDescUnstable(sorted, x) ==
    IF sorted = <<>> THEN <<x>>
    ELSE IF Head(sorted)[1] > x[1]
         THEN <<Head(sorted)>> \o InsertDescUnstable(Tail(sorted), x)
         ELSE <<x>> \o sorted

RECURSIVE InsertDesc(_, _)
InsertDesc(sorted, x) ==
    IF sorted = <<>> THEN <<x>>
    ELSE IF Head(sorted)[1] >= x[1]
         THEN <<Head(sorted)>> \o InsertDesc(Tail(sorted), x)
         ELSE <<x>> \o sorted

RECURSIVE SortDesc(_, _)
SortDesc(todo, done) ==
    IF todo = <<>> THEN done
    ELSE SortDesc(Tail(todo), InsertDesc(done, Head(todo)))

InBudget(h, p) ==
    p.hotel_budget_min <= h.nightly_rate /\ h.nightly_rate <= p.hotel_budget_max

evaluate_hotels(hs, p) ==
    IF hs = <<>>
    THEN [check_in |-> "N/A", options |-> <<>>,
          summary |-> <<Clause("No hotels found.", 0, 0, 0)>>]
    ELSE
      LET scored_hotels == [k \in 1..Len(hs) |-> <<_score_hotel(hs[k], p), hs[k]>>]
          sorted == SortDesc(scored_hotels, <<>>)
          sorted_options == [k \in 1..Len(sorted) |-> sorted[k][2]]
          InB(h) == InBudget(h, p)
          Brand(h) == h.brand \in p.preferred_hotel_brands
          Disc(h) == h.has_storm_discount
          in_budget == SelectSeq(hs, InB)
          brand_matches == SelectSeq(hs, Brand)
          storm_discounted == SelectSeq(hs, Disc)
          top == sorted_options[1]
      IN [check_in |-> top.name,
          options |-> sorted_options,
          summary |->
             <<Clause("found", Len(hs), 0, 0)>>
             \o (IF in_budget # <<>>
                    THEN <<Clause("in_budget", Len(in_budget),
                                  p.hotel_budget_min, p.hotel_budget_max)>>
                    ELSE <<Clause("none_in_budget", 0,
                                  p.hotel_budget_min, p.hotel_budget_max)>>)
             \o (IF brand_matches # <<>>
                    THEN <<Clause("brand", Len(brand_matches), 0, 0)>>
                    ELSE <<>>)
             \o (IF storm_discounted # <<>>
                    THEN <<Clause("storm_discount", Len(storm_discounted), 0, 0)>>
                    ELSE <<>>)
             \o <<Clause("top_pick", top.name, top.nightly_rate, top.rating)>>]

\* ---------------------------------------------------- _compute_confidence
\* Variant: two storm days no longer earn the weather point.
_compute_confidence_Under2(weather_storm_days, flight_ok, flight_ideal, hotel_ok, hotel_ideal) ==
    LET s1 == IF weather_storm_days = 0 THEN 3
              ELSE IF weather_storm_days < 2 THEN 1 ELSE 0
        s2 == s1 + (IF flight_ideal THEN 3 ELSE IF flight_ok THEN 1 ELSE 0)
        score == s2 + (IF hotel_ideal THEN 3 ELSE IF hotel_ok THEN 1 ELSE 0)
    IN  IF score >= 7 THEN "High"
        ELSE IF score >= 4 THEN "Medium"
        ELSE "Low"

\* Variant: the weather point is given from two storm days up.
_compute_confidence_AtLeast2(weather_storm_days, flight_ok, flight_ideal, hotel_ok, hotel_ideal) ==
    LET s1 == IF weather_storm_days = 0 THEN 3
              ELSE IF weather_storm_days >= 2 THEN 1 ELSE 0
        s2 == s1 + (IF flight_ideal THEN 3 ELSE IF flight_ok THEN 1 ELSE 0)
        score == s2 + (IF hotel_ideal THEN 3 ELSE IF hotel_ok THEN 1 ELSE 0)
    IN  IF score >= 7 THEN "High"
        ELSE IF score >= 4 THEN "Medium"
        ELSE "Low"

\* Variant: six points are enough for "High".
_compute_confidence_HighFrom6(weather_storm_days, flight_ok, flight_ideal, hotel_ok, hotel_ideal) ==
    LET s1 == IF weather_storm_days = 0 THEN 3
              ELSE IF weather_storm_days <= 2 THEN 1 ELSE 0
        s2 == s1 + (IF flight_ideal THEN 3 ELSE IF flight_ok THEN 1 ELSE 0)
        score == s2 + (IF hotel_ideal THEN 3 ELSE IF hotel_ok THEN 1 ELSE 0)
    IN  IF score >= 6 THEN "High"
        ELSE IF score >= 4 THEN "Medium"
        ELSE "Low"

_compute_confidence(weather_storm_days, flight_ok, flight_ideal, hotel_ok, hotel_ideal) ==
    LET s1 == IF weather_storm_days = 0 THEN 3
              ELSE IF weather_storm_days <= 2 THEN 1 ELSE 0
        s2 == s1 + (IF flight_ideal THEN 3 ELSE IF flight_ok THEN 1 ELSE 0)
        score == s2 + (IF hotel_ideal THEN 3 ELSE IF hotel_ok THEN 1 ELSE 0)
    IN  IF score >= 7 THEN "High"
        ELSE IF score >= 4 THEN "Medium"
        ELSE "Low"

\* -------------------------------------------------- _generate_alternatives
\* w.best_window.split(" to ")[0]: the start date, or the whole string when
\* it holds no " to " ("N/A", which equals no date).
NoDate == -1

SplitFirst(w) == IF HasTo(w) THEN w[1] ELSE NoDate

\* Variant: the loop without the "continue" on the best window's start.
RECURSIVE AltLoopNoSkip(_, _, _, _, _, _)
AltLoopNoSkip(df, trip, best_start, i, stop, alternatives) ==
    IF i >= stop THEN alternatives
    ELSE
      LET window_start == Py(df, i).date
          window == Slice(df, i, i + trip)
          storms == CountStorm(window)
          rain == CountRainy(window)
      IN  IF storms = 0 /\ rain <= 2
          THEN LET window_end == Py(df, i + trip - 1).date
                   alts == Append(alternatives,
                                  [window |-> WindowStr(window_start, window_end),
                                   rain |-> rain])
               IN  IF Len(alts) >= 2 THEN alts
                   ELSE AltLoopNoSkip(df, trip, best_start, i + 1, stop, alts)
          ELSE AltLoopNoSkip(df, trip, best_start, i + 1, stop, alternatives)

\* for i in range(len(daily_forecasts) - trip_length_nights), with the
\* "continue" on the best start and the "break" at two alternatives.
RECURSIVE AltLoop(_, _, _, _, _, _)
AltLoop(df, trip, best_start, i, stop, alternatives) ==
    IF i >= stop THEN alternatives
    ELSE
      LET window_start == Py(df, i).date
          window == Slice(df, i, i + trip)
          storms == CountStorm(window)
          rain == CountRainy(window)
      IN  IF window_start = best_start
          THEN AltLoop(df, trip, best_start, i + 1, stop, alternatives)
          ELSE IF storms = 0 /\ rain <= 2
          THEN LET window_end == Py(df, i + trip - 1).date
                   alts == Append(alternatives,
                                  [window |-> WindowStr(window_start, window_end),
                                   rain |-> rain])
               IN  IF Len(alts) >= 2 THEN alts
                   ELSE AltLoop(df, trip, best_start, i + 1, stop, alts)
          ELSE AltLoop(df, trip, best_start, i + 1, stop, alternatives)

_generate_alternatives(w, f, p) ==
    IF w.daily_forecasts # <<>>
    THEN AltLoop(w.daily_forecasts, p.trip_length_nights,
                 SplitFirst(w.best_window), 0,
                 Len(w.daily_forecasts) - p.trip_length_nights, <<>>)
    ELSE <<>>

\* The same loop, followed for its subscripts daily_forecasts[i] and
\* daily_forecasts[i + trip_length_nights - 1]: TRUE when one of them raises
\* IndexError before the loop ends; count = len(alternatives).
RECURSIVE AltLoopRaises(_, _, _, _, _, _)
AltLoopRaises(df, trip, best_start, i, stop, count) ==
    IF i >= stop THEN FALSE
    ELSE IF ~ValidIndex(df, i) THEN TRUE
    ELSE
      LET window == Slice(df, i, i + trip)
      IN  IF Py(df, i).date = best_start
          THEN AltLoopRaises(df, trip, best_start, i + 1, stop, count)
          ELSE IF CountStorm(window) = 0 /\ CountRainy(window) <= 2
          THEN IF ~ValidIndex(df, i + trip - 1) THEN TRUE
               ELSE IF count + 1 >= 2 THEN FALSE
               ELSE AltLoopRaises(df, trip, best_start, i + 1, stop, count + 1)
          ELSE AltLoopRaises(df, trip, best_start, i + 1, stop, count)

_generate_alternatives_raises(w, f, p) ==
    /\ w.daily_forecasts # <<>>
    /\ AltLoopRaises(w.daily_forecasts, p.trip_length_nights,
                     SplitFirst(w.best_window), 0,
                     Len(w.daily_forecasts) - p.trip_length_nights, 0)

\* --------------------------------------------------- _generate_rejections
Rejection(k, w, n, limit) == [kind |-> k, window |-> w, n |-> n, limit |-> limit]

\* Variant: the temperature rejection already fires at three hot days.
_generate_rejections_From3(w, f, p) ==
    LET hot_days == CountAbove(w.daily_forecasts, p.preferred_temp_max_f + 5)
    IN  (IF w.storm_risk_days > 0
            THEN <<Rejection("storm", w.worst_window, w.storm_risk_days,
                             p.comfort_priority)>>
            ELSE <<>>)
        \o (IF f.average_price > p.airfare_budget_hard
               THEN <<Rejection("budget", NA, f.average_price,
                                p.airfare_budget_hard)>>
               ELSE <<>>)
        \o (IF w.daily_forecasts # <<>> /\ hot_days >= 3
               THEN <<Rejection("temperature", NA, hot_days,
                                p.preferred_temp_max_f + 5)>>
               ELSE <<>>)

_generate_rejections(w, f, p) ==
    LET hot_days == CountAbove(w.daily_forecasts, p.preferred_temp_max_f + 5)
    IN  (IF w.storm_risk_days > 0
            THEN <<Rejection("storm", w.worst_window, w.storm_risk_days,
                             p.comfort_priority)>>
            ELSE <<>>)
        \o (IF f.average_price > p.airfare_budget_hard
               THEN <<Rejection("budget", NA, f.average_price,
                                p.airfare_budget_hard)>>
               ELSE <<>>)
        \o (IF w.daily_forecasts # <<>> /\ hot_days > 3
               THEN <<Rejection("temperature", NA, hot_days,
                                p.preferred_temp_max_f + 5)>>
               ELSE <<>>)

\* ---------------------------------------------- synthesize_recommendation
\* Variant: the cap takes six flights instead of five.
FlightFitFirst6(p, w, f) ==
    LET best_start == IF HasTo(w.best_window) THEN w.best_window[1] ELSE EmptyStr
        OnOrAfter(x) == x.departure_date >= best_start
        window_flights == Slice(SelectSeq(f.options, OnOrAfter), 0, 6)
        Hard(x) == x.price_usd <= p.airfare_budget_hard
        Soft(x) == x.price_usd <= p.airfare_budget_soft
    IN  [window_flights |-> window_flights,
         affordable_flights |-> SelectSeq(window_flights, Hard),
         ideal_flights |-> SelectSeq(window_flights, Soft)]

\* Variant: a flight one dollar over the hard ceiling still counts as
\* affordable.
FlightFitHardPlus1(p, w, f) ==
    LET best_start == IF HasTo(w.best_window) THEN w.best_window[1] ELSE EmptyStr
        OnOrAfter(x) == x.departure_date >= best_start
        window_flights == Slice(SelectSeq(f.options, OnOrAfter), 0, 5)
        Hard(x) == x.price_usd <= p.airfare_budget_hard + 1
        Soft(x) == x.price_usd <= p.airfare_budget_soft
    IN  [window_flights |-> window_flights,
         affordable_flights |-> SelectSeq(window_flights, Hard),
         ideal_flights |-> SelectSeq(window_flights, Soft)]

\* Locals of steps 2 and 3 (lines 84-118).
FlightFit(p, w, f) ==
    LET best_start == IF HasTo(w.best_window) THEN w.best_window[1] ELSE EmptyStr
        OnOrAfter(x) == x.departure_date >= best_start
        window_flights == Slice(SelectSeq(f.options, OnOrAfter), 0, 5)
        Hard(x) == x.price_usd <= p.airfare_budget_hard
        Soft(x) == x.price_usd <= p.airfare_budget_soft
    IN  [window_flights |-> window_flights,
         affordable_flights |-> SelectSeq(window_flights, Hard),
         ideal_flights |-> SelectSeq(window_flights, Soft)]

HotelFit(p, h) ==
    LET InB(x) == InBudget(x, p)
        Brand(x) == x.brand \in p.preferred_hotel_brands
        budget_hotels == SelectSeq(h.options, InB)
    IN  [budget_hotels |-> budget_hotels,
         brand_hotels |-> SelectSeq(budget_hotels, Brand)]

synthesize_recommendation(p, w, f, h) ==
    LET ff == FlightFit(p, w, f)
        hf == HotelFit(p, h)
        flight_ok == Len(ff.affordable_flights) > 0
        flight_ideal == Len(ff.ideal_flights) > 0
        hotel_ok == Len(hf.budget_hotels) > 0
        hotel_ideal == Len(hf.brand_hotels) > 0
        confidence == _compute_confidence(w.storm_risk_days, flight_ok,
                                          flight_ideal, hotel_ok, hotel_ideal)
        reasoning ==
            <<Clause("weather", w.avg_high_f, p.preferred_temp_min_f,
                     p.preferred_temp_max_f)>>
            \o (IF w.storm_risk_days > 0
                   THEN <<Clause("storm_warning", w.storm_risk_days, 0, 0)>>
                   ELSE <<>>)
            \o (IF flight_ideal
                   THEN <<Clause("flights_ideal", 0,
                                 MinOf(Prices(ff.ideal_flights)), 0)>>
                   ELSE IF flight_ok
                   THEN <<Clause("flights_hard", 0,
                                 MinOf(Prices(ff.affordable_flights)),
                                 p.airfare_budget_hard)>>
                   ELSE <<Clause("flights_none", 0, p.airfare_budget_hard, 0)>>)
            \o (IF hotel_ideal
                   THEN <<Clause("hotel_brand", hf.brand_hotels[1].name,
                                 hf.brand_hotels[1].nightly_rate, 0)>>
                   ELSE IF hotel_ok
                   THEN <<Clause("hotel_budget", hf.budget_hotels[1].name,
                                 hf.budget_hotels[1].nightly_rate, 0)>>
                   ELSE <<Clause("hotel_none", 0, 0, 0)>>)
    IN  [recommended_window |-> w.best_window,
         confidence |-> confidence,
         reasoning |-> reasoning,
         alternative_windows |-> _generate_alternatives(w, f, p),
         rejected_options |-> _generate_rejections(w, f, p),
         weather_summary |-> w.summary,
         flight_summary |-> f.summary,
         hotel_summary |-> h.summary]

\* Every other subscript and min() of synthesize_recommendation is guarded
\* by a non-emptiness test; the alternatives loop is the one that can raise.
synthesize_recommendation_raises(p, w, f, h) == _generate_alternatives_raises(w, f, p)

\* ------------------------------------------------------------------ inputs
Profile(tmin, tmax, soft, hard, hmin, hmax, brands, trip, comfort) ==
    [preferred_temp_min_f |-> tmin, preferred_temp_max_f |-> tmax,
     airfare_budget_soft |-> soft, airfare_budget_hard |-> hard,
     hotel_budget_min |-> hmin, hotel_budget_max |-> hmax,
     preferred_hotel_brands |-> brands,
     trip_length_nights |-> trip, comfort_priority |-> comfort]

\* The stored profiles "alex" and "jordan" (trip length and comfort varied)
Alex(trip, comfort) ==
    Profile(72, 85, 450, 650, 120, 250, {"Marriott", "Hilton"}, trip, comfort)

Jordan(trip, comfort) ==
    Profile(68, 80, 600, 900, 200, 400, {"Hyatt", "Four Seasons"}, trip, comfort)

Sam(trip, comfort) ==
    Profile(75, 90, 800, 1200, 300, 600, {"Four Seasons", "Ritz-Carlton"}, trip, comfort)

\* ------------------------------------------------------------ user_profile
\* The profile store, keyed by lower-case identifier
_MOCK_PROFILES ==
    ("alex" :> Alex(7, 6)) @@ ("jordan" :> Jordan(5, 9)) @@ ("sam" :> Sam(10, 8))

None == <<>>

\* Identifiers a caller may pass: stored keys, other spellings of them, and
\* strangers.  Lower is str.lower() on these identifiers; it does not strip.
UserIds == {"alex", "Alex", "ALEX", "jordan", "SAM", "alex ", "bob", ""}

Lower(id) ==
    CASE id = "Alex" -> "alex"
      [] id = "ALEX" -> "alex"
      [] id = "SAM" -> "sam"
      [] OTHER -> id

\* Variant: an unknown identifier falls back to the profile of "alex".
get_profile_DefaultAlex(id) ==
    IF Lower(id) \in DOMAIN _MOCK_PROFILES
    THEN _MOCK_PROFILES[Lower(id)] ELSE _MOCK_PROFILES["alex"]

\* _MOCK_PROFILES.get(user_id.lower())
get_profile(id) ==
    IF Lower(id) \in DOMAIN _MOCK_PROFILES THEN _MOCK_PROFILES[Lower(id)] ELSE None

list_available_users == <<"alex", "jordan", "sam">>

\* The stored key of the traveler a profile belongs to
KeyOf(p) ==
    CHOOSE k \in DOMAIN _MOCK_PROFILES :
        _MOCK_PROFILES[k].preferred_hotel_brands = p.preferred_hotel_brands

\* --------------------------------------------------------------- tool replies
Tools == {"get_user_profile", "get_weather_forecast",
          "search_and_analyze_flights", "search_and_evaluate_hotels",
          "synthesize_travel_recommendation"}

\* {"error": "User '<id>' not found."}, with the known keys where the
\* tool lists them
NotFound(id, users) == [error |-> TRUE, user_id |-> id, available_users |-> users]

\* asdict(result)
Reply(body) == [error |-> FALSE, body |-> body]

\* result.pop(key, None)
Pop(r, key) == [k \in DOMAIN r \ {key} |-> r[k]]

\* sorted(options, key=lambda x: x["price_usd"]): stable, ascending
RECURSIVE InsertByPrice(_, _)
InsertByPrice(sorted, x) ==
    IF sorted = <<>> THEN <<x>>
    ELSE IF Head(sorted).price_usd <= x.price_usd
         THEN <<Head(sorted)>> \o InsertByPrice(Tail(sorted), x)
         ELSE <<x>> \o sorted

RECURSIVE SortByPrice(_, _)
SortByPrice(todo, done) ==
    IF todo = <<>> THEN done
    ELSE SortByPrice(Tail(todo), InsertByPrice(done, Head(todo)))

Day(high, precip, wind, storm) ==
    [date |-> 0, high_f |-> high, low_f |-> high - 10,
     precipitation_pct |-> precip, wind_mph |-> wind, is_storm_risk |-> storm]

\* Forecast providers emit consecutive dates: the day at Python index i
\* has date i + 1.
Dated(days) == [k \in 1..Len(days) |-> [days[k] EXCEPT !.date = k]]

Ideal == Day(80, 10, 15, FALSE)

Hot == Day(92, 10, 15, FALSE)

Rainy == Day(80, 60, 15, FALSE)

Stormy == Day(80, 80, 25, TRUE)

DayKinds == {Ideal, Hot, Rainy, Stormy}

AllDays == {Day(h, pr, w, st) : h \in {70, 80, 92}, pr \in {40, 41},
                                w \in {9, 10, 20, 21}, st \in BOOLEAN}

SeqsUpTo(S, n) == UNION {[1..k -> S] : k \in 0..n}

Flight(date, price, red_eye) ==
    [airline |-> "Hawaiian Airlines", departure_date |-> date,
     price_usd |-> price, is_red_eye |-> red_eye]

FlightKinds == {Flight(1, 400, FALSE), Flight(2, 400, FALSE),
                Flight(2, 650, FALSE), Flight(2, 651, FALSE)}

CheapFlights == <<Flight(1, 400, FALSE), Flight(2, 650, FALSE)>>

DearFlights == <<Flight(1, 700, FALSE), Flight(2, 651, FALSE)>>

Hotel(rate, brand, rating, discount) ==
    [name |-> 0, brand |-> brand, nightly_rate |-> rate, rating |-> rating,
     has_storm_discount |-> discount]

\* A hotel's name is its position in the provider's list: names are unique.
Named(hs) == [k \in 1..Len(hs) |-> [hs[k] EXCEPT !.name = k]]

AllHotels == {Hotel(r, b, g, d) : r \in {100, 120, 160, 250, 260, 340},
                                  b \in {"Marriott", "Aston"},
                                  g \in {25, 30, 43, 50}, d \in BOOLEAN}

HotelKinds == {Hotel(160, "Marriott", 43, FALSE), Hotel(200, "Hilton", 43, FALSE),
               Hotel(260, "Aston", 30, FALSE), Hotel(100, "Aston", 40, TRUE)}

SomeHotels == Named(<<Hotel(260, "Aston", 30, FALSE),
                      Hotel(160, "Marriott", 43, FALSE)>>)

\* Storm on the first day only: the best one-night window starts on day 2
StormThenIdeal == Dated(<<Stormy, Ideal, Ideal>>)

\* ----------------------------------------------------------------- random
\* The generator of the random module is one object shared by every caller
\* in the process.  Its state is the seed last given and the number of
\* values drawn since; before any seed() it is seeded from the system
\* (seed -1 here).
Unseeded == [seed |-> -1, drawn |-> 0]

\* random.seed(42)
Seed42 == [seed |-> 42, drawn |-> 0]

\* The generator's output after seed(42), as a fixed sequence of numbers
Random42 == <<14, 3, 35, 31, 28, 17, 13, 11, 54, 4, 3, 11, 27, 29, 3, 25>>

\* The value drawn k places after state g
Drawn(g, k) == Random42[((g.drawn + k) % Len(Random42)) + 1]

\* The state after n more draws
Advance(g, n) == [g EXCEPT !.drawn = g.drawn + n]

\* random.randint(a, b) on the value v drawn
RandInt(a, b, v) == a + (v % (b - a + 1))

\* ------------------------------------------------------------------- Init
Fresh ==
    /\ rng = Unseeded
    /\ check_in = NoDate
    /\ weather = <<>>
    /\ scan = NoScan
    /\ flights = <<>>
    /\ hotels = <<>>
    /\ recommendation = <<>>
    /\ response = None

\* The pipeline of synthesize_travel_recommendation after its lookup found
\* the traveler's profile (line 466)
Resolved ==
    /\ tool = "synthesize_travel_recommendation"
    /\ user_id = KeyOf(profile)
    /\ pc = "weather"

InitWeather ==
    /\ \E days \in SeqsUpTo(DayKinds, MaxDays) : forecasts = Dated(days)
    /\ \E trip \in 1..MaxTrip : profile = Alex(trip, 6)
    /\ flights_raw \in {CheapFlights, DearFlights}
    /\ hotels_raw = SomeHotels

InitScore ==
    /\ \E d1 \in AllDays, d2 \in DayKinds : forecasts = Dated(<<d1, d2>>)
    /\ profile \in {Alex(1, 6), Alex(1, 9), Jordan(1, 6), Jordan(1, 9)}
    /\ flights_raw = CheapFlights
    /\ hotels_raw = SomeHotels

InitFlights ==
    /\ forecasts \in {<<>>, StormThenIdeal}
    /\ profile = Alex(1, 6)
    /\ flights_raw \in SeqsUpTo(FlightKinds, MaxFlights)
    /\ hotels_raw = SomeHotels

InitHotels ==
    /\ forecasts = StormThenIdeal
    /\ profile \in {Alex(1, 6), Alex(1, 9)}
    /\ flights_raw = CheapFlights
    /\ \E h1 \in AllHotels, rest \in SeqsUpTo(HotelKinds, MaxHotels - 1) :
          hotels_raw = Named(<<h1>> \o rest)

\* The five-day trip of a comfort-9 traveler (range 72-85)
InitScenario ==
    /\ \E days \in [1..5 -> DayKinds] : forecasts = Dated(days)
    /\ profile = Alex(5, 9)
    /\ flights_raw = CheapFlights
    /\ hotels_raw = SomeHotels

Init ==
    /\ Fresh
    /\ \/ InitWeather
       \/ InitScenario
       \/ InitScore
       \/ InitFlights
       \/ InitHotels
    /\ Resolved

\* ---------------------------------------------------------------- actions
\* synthesize_travel_recommendation, lines 468-469
AnalyzeWeather ==
    /\ pc = "weather"
    /\ IF analyze_weather_raises(forecasts, profile)
       THEN /\ pc' = "raised"
            /\ UNCHANGED <<weather, scan>>
       ELSE /\ weather' = analyze_weather(forecasts, profile)
            /\ scan' = IF forecasts = <<>> THEN NoScan
                       ELSE WindowSearch(forecasts, profile)
            /\ pc' = "flights"
    /\ UNCHANGED <<profile, forecasts, flights_raw, hotels_raw,
                   flights, hotels, recommendation,
                   tool, user_id, response, rng, check_in>>

\* lines 471-481
AnalyzeFlights ==
    /\ pc = "flights"
    /\ flights' = analyze_flights(flights_raw, profile)
    /\ pc' = "hotels"
    /\ UNCHANGED <<profile, forecasts, flights_raw, hotels_raw,
                   weather, scan, hotels, recommendation,
                   tool, user_id, response, rng, check_in>>

\* The first forecast date asked for (weather_start_date)
weather_start_date == 1

\* Variant: the hotels are searched from the start of the worst window.
HotelSearchStartWorst(w) ==
    IF HasTo(w.worst_window) THEN w.worst_window[1] ELSE weather_start_date

\* line 485: the check-in date of the hotel search
HotelSearchStart(w) ==
    IF HasTo(w.best_window) THEN w.best_window[1] ELSE weather_start_date

\* lines 483-494
EvaluateHotels ==
    /\ pc = "hotels"
    /\ check_in' = HotelSearchStart(weather)
    /\ hotels' = evaluate_hotels(hotels_raw, profile)
    /\ pc' = "synthesize"
    /\ UNCHANGED <<profile, forecasts, flights_raw, hotels_raw,
                   weather, scan, flights, recommendation,
                   tool, user_id, response, rng>>

\* Variant: the flight result handed in is cut down to the flights
\* considered for the window.
SynthesizeTrimsFlights ==
    /\ pc = "synthesize"
    /\ IF synthesize_recommendation_raises(profile, weather, flights, hotels)
       THEN /\ pc' = "raised"
            /\ UNCHANGED <<recommendation, response, flights>>
       ELSE /\ recommendation' =
                  synthesize_recommendation(profile, weather, flights, hotels)
            /\ response' = Reply(recommendation')
            /\ flights' = [flights EXCEPT !.options =
                              FlightFit(profile, weather, flights).window_flights]
            /\ pc' = "done"
    /\ UNCHANGED <<profile, forecasts, flights_raw, hotels_raw,
                   weather, scan, hotels, tool, user_id, rng, check_in>>

\* lines 497-500
Synthesize ==
    /\ pc = "synthesize"
    /\ IF synthesize_recommendation_raises(profile, weather, flights, hotels)
       THEN /\ pc' = "raised"
            /\ UNCHANGED <<recommendation, response>>
       ELSE /\ recommendation' =
                  synthesize_recommendation(profile, weather, flights, hotels)
            /\ response' = Reply(recommendation')
            /\ pc' = "done"
    /\ UNCHANGED <<profile, forecasts, flights_raw, hotels_raw,
                   weather, scan, flights, hotels, tool, user_id, rng, check_in>>

Next ==
    \/ AnalyzeWeather
    \/ AnalyzeFlights
    \/ EvaluateHotels
    \/ Synthesize

Spec == Init /\ [][Next]_vars

\* The runs over the scoring inputs alone: single days of every kind under
\* both temperature ranges and comfort priorities, and the five-day trip
InitScoring ==
    /\ Fresh
    /\ \/ InitScore
       \/ InitScenario
    /\ Resolved

SpecScoring == InitScoring /\ [][Next]_vars

\* The runs over the forecasts: every forecast of up to MaxDays days with
\* every trip length, and the two-day forecasts at the thresholds
InitForecasts == Fresh /\ (InitWeather \/ InitScore) /\ Resolved

SpecWeather == InitForecasts /\ [][Next]_vars

\* The runs over flight lists with red-eye flights in them, for travelers
\* on either side of the comfort threshold of the red-eye caveat
RedEyeKinds == {Flight(1, 400, FALSE), Flight(2, 651, FALSE),
                Flight(1, 300, TRUE), Flight(2, 500, TRUE), Flight(2, 700, TRUE)}

InitRedEye ==
    /\ Fresh
    /\ forecasts \in {<<>>, StormThenIdeal}
    /\ profile \in {Alex(1, 6), Alex(1, 7), Jordan(1, 7)}
    /\ flights_raw \in SeqsUpTo(RedEyeKinds, MaxFlights - 2)
    /\ hotels_raw = SomeHotels
    /\ Resolved

SpecFlights == InitRedEye /\ [][Next]_vars

\* ------------------------------------------------- typed, unvalidated input
\* UserProfile is a plain dataclass: nothing validates its fields.  The
\* profiles of "alex" with the airfare ceilings and the hotel rate bounds in
\* either order, and a trip length that may be zero or negative.
TypedProfiles ==
    {Profile(72, 85, air[1], air[2], rate[1], rate[2], {"Marriott", "Hilton"}, trip, 6) :
        air \in {<<450, 650>>, <<650, 450>>},
        rate \in {<<120, 250>>, <<250, 120>>},
        trip \in (0 - MaxTrip)..1}

MidFlights == <<Flight(1, 500, FALSE), Flight(2, 600, FALSE)>>

TypedInputs ==
    /\ \E days \in SeqsUpTo(DayKinds, MaxDays - 2) : forecasts = Dated(days)
    /\ profile \in TypedProfiles
    /\ flights_raw \in {<<>>, CheapFlights, MidFlights, DearFlights}
    /\ hotels_raw \in {<<>>, SomeHotels}

InitTyped ==
    /\ Fresh
    /\ TypedInputs
    /\ Resolved

SpecTyped == InitTyped /\ [][Next]_vars

\* ------------------------------------------------------- tools/mcp_server.py
\* A tool call before its profile lookup
InitTools ==
    /\ Fresh
    /\ profile = None
    /\ tool \in Tools
    /\ user_id \in UserIds
    /\ \E days \in SeqsUpTo(DayKinds, 2) : forecasts = Dated(days)
    /\ flights_raw \in {<<>>, CheapFlights, DearFlights}
    /\ hotels_raw \in {<<>>, SomeHotels}
    /\ pc = "call"

\* lines 149-162
get_user_profile ==
    /\ pc = "call" /\ tool = "get_user_profile"
    /\ profile' = get_profile(user_id)
    /\ IF profile' = None
       THEN /\ response' = NotFound(user_id, list_available_users)
            /\ pc' = "error"
       ELSE /\ response' = Reply(profile')
            /\ pc' = "returned"
    /\ UNCHANGED <<forecasts, flights_raw, hotels_raw, weather, scan,
                   flights, hotels, recommendation, tool, user_id, rng, check_in>>

\* lines 215-237
get_weather_forecast ==
    /\ pc = "call" /\ tool = "get_weather_forecast"
    /\ profile' = get_profile(user_id)
    /\ IF profile' = None
       THEN /\ response' = NotFound(user_id, <<>>)
            /\ pc' = "error"
            /\ UNCHANGED <<weather, scan>>
       ELSE IF analyze_weather_raises(forecasts, profile')
       THEN /\ pc' = "raised"
            /\ UNCHANGED <<weather, scan, response>>
       ELSE /\ weather' = analyze_weather(forecasts, profile')
            /\ scan' = IF forecasts = <<>> THEN NoScan
                       ELSE WindowSearch(forecasts, profile')
            /\ response' = Reply(Pop(weather', "daily_forecasts"))
            /\ pc' = "returned"
    /\ UNCHANGED <<forecasts, flights_raw, hotels_raw,
                   flights, hotels, recommendation, tool, user_id, rng, check_in>>

\* lines 292-322
search_and_analyze_flights ==
    /\ pc = "call" /\ tool = "search_and_analyze_flights"
    /\ profile' = get_profile(user_id)
    /\ IF profile' = None
       THEN /\ response' = NotFound(user_id, <<>>)
            /\ pc' = "error"
            /\ UNCHANGED flights
       ELSE /\ flights' = analyze_flights(flights_raw, profile')
            /\ response' = Reply([flights' EXCEPT
                  !.options = Slice(SortByPrice(flights'.options, <<>>), 0, 5)])
            /\ pc' = "returned"
    /\ UNCHANGED <<forecasts, flights_raw, hotels_raw, weather, scan,
                   hotels, recommendation, tool, user_id, rng, check_in>>

\* lines 376-398
search_and_evaluate_hotels ==
    /\ pc = "call" /\ tool = "search_and_evaluate_hotels"
    /\ profile' = get_profile(user_id)
    /\ IF profile' = None
       THEN /\ response' = NotFound(user_id, <<>>)
            /\ pc' = "error"
            /\ UNCHANGED hotels
       ELSE /\ hotels' = evaluate_hotels(hotels_raw, profile')
            /\ response' = Reply([hotels' EXCEPT
                  !.options = Slice(hotels'.options, 0, 5)])
            /\ pc' = "returned"
    /\ UNCHANGED <<forecasts, flights_raw, hotels_raw, weather, scan,
                   flights, recommendation, tool, user_id, rng, check_in>>

\* lines 462-466: the lookup that precedes the pipeline
synthesize_travel_recommendation ==
    /\ pc = "call" /\ tool = "synthesize_travel_recommendation"
    /\ profile' = get_profile(user_id)
    /\ IF profile' = None
       THEN /\ response' = NotFound(user_id, <<>>)
            /\ pc' = "error"
       ELSE /\ pc' = "weather"
            /\ UNCHANGED response
    /\ UNCHANGED <<forecasts, flights_raw, hotels_raw, weather, scan,
                   flights, hotels, recommendation, tool, user_id, rng, check_in>>

NextTools ==
    \/ get_user_profile
    \/ get_weather_forecast
    \/ search_and_analyze_flights
    \/ search_and_evaluate_hotels
    \/ synthesize_travel_recommendation
    \/ AnalyzeWeather
    \/ AnalyzeFlights
    \/ EvaluateHotels
    \/ Synthesize

SpecTools == InitTools /\ [][NextTools]_vars

\* ============================================================ parallel runs
\* Two calls of synthesize_travel_recommendation at once, for two
\* travelers, offline data.  Every per-call variable holds one value per
\* run; rng is the one generator both runs use.  The providers' loops are
\* spelled out: a seed step, then one step per loop iteration, which draws
\* all the values of that iteration at once.
Runs == {1, 2}

\* weather_days of the two calls
ParDays == 2

\* The hotels the provider iterates over
ParHotels == 1

Travelers == <<Alex(1, 6), Jordan(1, 9)>>

\* weather.py lines 303-310 and 346-354 (days 1-7): one day of the mock
\* forecast, its readings drawn from state g
MockDay(i, g) ==
    [date |-> i + 1,
     high_f |-> RandInt(82, 87, Drawn(g, 0)),
     low_f |-> RandInt(70, 74, Drawn(g, 1)),
     precipitation_pct |-> RandInt(5, 20, Drawn(g, 3)),
     wind_mph |-> RandInt(5, 12, Drawn(g, 4)),
     is_storm_risk |-> FALSE]

\* flights.py lines 70-107: the direct flight and the red-eye of one
\* departure date (a weekday without the one-stop option)
MockFlights(date, g) ==
    <<[airline |-> "Hawaiian Airlines", departure_date |-> date,
       price_usd |-> RandInt(420, 580, Drawn(g, 0)), is_red_eye |-> FALSE],
      [airline |-> "Alaska Airlines", departure_date |-> date,
       price_usd |-> RandInt(320, 450, Drawn(g, 1)), is_red_eye |-> TRUE]>>

\* hotels.py lines 38-88, brand, base rate and rating (tenths)
_MAUI_HOTELS ==
    <<[brand |-> "Marriott", base_rate |-> 280, rating |-> 43],
      [brand |-> "Hyatt", base_rate |-> 350, rating |-> 46],
      [brand |-> "Four Seasons", base_rate |-> 550, rating |-> 48],
      [brand |-> "Hilton", base_rate |-> 180, rating |-> 40],
      [brand |-> "Ritz-Carlton", base_rate |-> 480, rating |-> 47],
      [brand |-> "Marriott", base_rate |-> 160, rating |-> 39],
      [brand |-> "Hyatt", base_rate |-> 420, rating |-> 45]>>

\* hotels.py lines 122-155 with is_storm_period False: the rate is
\* int(rate * random.uniform(0.95, 1.05)), the factor kept in hundredths
MockHotel(k, g) ==
    [name |-> k, brand |-> _MAUI_HOTELS[k].brand,
     nightly_rate |-> (_MAUI_HOTELS[k].base_rate * RandInt(95, 105, Drawn(g, 0))) \div 100,
     rating |-> _MAUI_HOTELS[k].rating,
     has_storm_discount |-> FALSE]

\* Departure dates run from the start date to start + weather_days in
\* steps of three days: the date after k dates have been served
DepartureDate(k) == 1 + 3 * k

InitParallel ==
    /\ profile = [r \in Runs |-> Travelers[r]]
    /\ user_id = [r \in Runs |-> KeyOf(Travelers[r])]
    /\ tool = "synthesize_travel_recommendation"
    /\ forecasts = [r \in Runs |-> <<>>]
    /\ flights_raw = [r \in Runs |-> <<>>]
    /\ hotels_raw = [r \in Runs |-> <<>>]
    /\ weather = [r \in Runs |-> <<>>]
    /\ scan = NoScan
    /\ flights = [r \in Runs |-> <<>>]
    /\ hotels = [r \in Runs |-> <<>>]
    /\ recommendation = [r \in Runs |-> <<>>]
    /\ response = [r \in Runs |-> None]
    /\ pc = [r \in Runs |-> "get_forecast"]
    /\ check_in = [r \in Runs |-> NoDate]
    /\ rng \in {Unseeded, Seed42}

\* get_forecast_mock, line 292
get_forecast_mock_seed(r) ==
    /\ pc[r] = "get_forecast"
    /\ rng' = Seed42
    /\ pc' = [pc EXCEPT ![r] = "forecast_loop"]
    /\ UNCHANGED <<profile, forecasts, flights_raw, hotels_raw, weather, scan,
                   flights, hotels, recommendation, tool, user_id, response, check_in>>

\* get_forecast_mock, lines 297-354: one iteration of the loop
get_forecast_mock_day(r) ==
    /\ pc[r] = "forecast_loop"
    /\ Len(forecasts[r]) < ParDays
    /\ forecasts' = [forecasts EXCEPT
                       ![r] = Append(@, MockDay(Len(forecasts[r]), rng))]
    /\ rng' = Advance(rng, 5)
    /\ UNCHANGED <<profile, flights_raw, hotels_raw, weather, scan, flights,
                   hotels, recommendation, pc, tool, user_id, response, check_in>>

\* mcp_server.py lines 468-469: the forecast is returned and analysed
RunAnalyzeWeather(r) ==
    /\ pc[r] = "forecast_loop"
    /\ Len(forecasts[r]) = ParDays
    /\ ~analyze_weather_raises(forecasts[r], profile[r])
    /\ weather' = [weather EXCEPT ![r] = analyze_weather(forecasts[r], profile[r])]
    /\ pc' = [pc EXCEPT ![r] = "search_flights"]
    /\ UNCHANGED <<profile, forecasts, flights_raw, hotels_raw, scan, flights,
                   hotels, recommendation, tool, user_id, response, rng, check_in>>

\* search_flights, line 60
search_flights_seed(r) ==
    /\ pc[r] = "search_flights"
    /\ rng' = Seed42
    /\ pc' = [pc EXCEPT ![r] = "flights_loop"]
    /\ UNCHANGED <<profile, forecasts, flights_raw, hotels_raw, weather, scan,
                   flights, hotels, recommendation, tool, user_id, response, check_in>>

\* search_flights, lines 69-124: one iteration of the while loop
search_flights_date(r) ==
    /\ pc[r] = "flights_loop"
    /\ DepartureDate(Len(flights_raw[r]) \div 2) <= 1 + ParDays
    /\ flights_raw' = [flights_raw EXCEPT
          ![r] = @ \o MockFlights(DepartureDate(Len(flights_raw[r]) \div 2), rng)]
    /\ rng' = Advance(rng, 2)
    /\ UNCHANGED <<profile, forecasts, hotels_raw, weather, scan, flights,
                   hotels, recommendation, pc, tool, user_id, response, check_in>>

\* mcp_server.py lines 471-481
RunAnalyzeFlights(r) ==
    /\ pc[r] = "flights_loop"
    /\ DepartureDate(Len(flights_raw[r]) \div 2) > 1 + ParDays
    /\ flights' = [flights EXCEPT ![r] = analyze_flights(flights_raw[r], profile[r])]
    /\ pc' = [pc EXCEPT ![r] = "search_hotels"]
    /\ UNCHANGED <<profile, forecasts, flights_raw, hotels_raw, weather, scan,
                   hotels, recommendation, tool, user_id, response, rng, check_in>>

\* mcp_server.py lines 483-491 and search_hotels, line 113
search_hotels_seed(r) ==
    /\ pc[r] = "search_hotels"
    /\ check_in' = [check_in EXCEPT ![r] = HotelSearchStart(weather[r])]
    /\ rng' = Seed42
    /\ pc' = [pc EXCEPT ![r] = "hotels_loop"]
    /\ UNCHANGED <<profile, forecasts, flights_raw, hotels_raw, weather, scan,
                   flights, hotels, recommendation, tool, user_id, response>>

\* search_hotels, lines 122-155: one iteration of the loop
search_hotels_hotel(r) ==
    /\ pc[r] = "hotels_loop"
    /\ Len(hotels_raw[r]) < ParHotels
    /\ hotels_raw' = [hotels_raw EXCEPT
                        ![r] = Append(@, MockHotel(Len(hotels_raw[r]) + 1, rng))]
    /\ rng' = Advance(rng, 1)
    /\ UNCHANGED <<profile, forecasts, flights_raw, weather, scan, flights,
                   hotels, recommendation, pc, tool, user_id, response, check_in>>

\* mcp_server.py lines 491-494
RunEvaluateHotels(r) ==
    /\ pc[r] = "hotels_loop"
    /\ Len(hotels_raw[r]) = ParHotels
    /\ hotels' = [hotels EXCEPT ![r] = evaluate_hotels(hotels_raw[r], profile[r])]
    /\ pc' = [pc EXCEPT ![r] = "synthesize"]
    /\ UNCHANGED <<profile, forecasts, flights_raw, hotels_raw, weather, scan,
                   flights, recommendation, tool, user_id, response, rng, check_in>>

\* mcp_server.py lines 497-500
RunSynthesize(r) ==
    /\ pc[r] = "synthesize"
    /\ ~synthesize_recommendation_raises(profile[r], weather[r], flights[r], hotels[r])
    /\ recommendation' = [recommendation EXCEPT
          ![r] = synthesize_recommendation(profile[r], weather[r], flights[r], hotels[r])]
    /\ response' = [response EXCEPT ![r] = Reply(recommendation'[r])]
    /\ pc' = [pc EXCEPT ![r] = "done"]
    /\ UNCHANGED <<profile, forecasts, flights_raw, hotels_raw, weather, scan,
                   flights, hotels, tool, user_id, rng, check_in>>

NextParallel ==
    \E r \in Runs :
        \/ get_forecast_mock_seed(r)
        \/ get_forecast_mock_day(r)
        \/ RunAnalyzeWeather(r)
        \/ search_flights_seed(r)
        \/ search_flights_date(r)
        \/ RunAnalyzeFlights(r)
        \/ search_hotels_seed(r)
        \/ search_hotels_hotel(r)
        \/ RunEvaluateHotels(r)
        \/ RunSynthesize(r)

SpecParallel == InitParallel /\ [][NextParallel]_vars

\* The providers called on their own, from seed(42) to return
RECURSIVE get_forecast_mock(_)
get_forecast_mock(days) ==
    IF days = 0 THEN <<>>
    ELSE Append(get_forecast_mock(days - 1),
                MockDay(days - 1, Advance(Seed42, 5 * (days - 1))))

RECURSIVE SearchFlightsLoop(_, _)
SearchFlightsLoop(k, end) ==
    IF DepartureDate(k) > end THEN <<>>
    ELSE MockFlights(DepartureDate(k), Advance(Seed42, 2 * k))
             \o SearchFlightsLoop(k + 1, end)

search_flights(end) == SearchFlightsLoop(0, end)

search_hotels == [k \in 1..ParHotels |-> MockHotel(k, Advance(Seed42, k - 1))]

\* The recommendation of a call run on its own
RunAlone(p) ==
    synthesize_recommendation(p, analyze_weather(get_forecast_mock(ParDays), p),
                              analyze_flights(search_flights(1 + ParDays), p),
                              evaluate_hotels(search_hotels, p))

\* ======================================================== properties
WeatherDone == pc # "weather"

HotelsDone == pc \in {"synthesize", "done"}

Done == pc = "done"

\* trip_length_nights = L and forecast length n of the current run
TripLen == profile.trip_length_nights

NDays == Len(forecasts)

\* Score of the window of L days starting at Python index i
WindowScoreAt(i) ==
    _score_weather_window(Slice(forecasts, i, i + TripLen), profile)

\* All window start indices 0..n-L
AllStarts == 0..(NDays - TripLen)

\* Index of the forecast day carrying a date (dates are consecutive from 1)
IndexOfDate(d) == d - 1

ArgFirstMax(S) ==
    CHOOSE i \in S : /\ \A j \in S : WindowScoreAt(i) >= WindowScoreAt(j)
                     /\ \A j \in S : WindowScoreAt(j) = WindowScoreAt(i) => i <= j

ArgFirstMin(S) ==
    CHOOSE i \in S : /\ \A j \in S : WindowScoreAt(i) <= WindowScoreAt(j)
                     /\ \A j \in S : WindowScoreAt(j) = WindowScoreAt(i) => i <= j

\* C1: for n > L >= 1 the best window starts at the lowest index, among ALL
\* start indices 0..n-L, whose window score is the maximum, and the worst
\* window at the lowest index whose score is the minimum.
C1_BestWorstOverAllStarts ==
    (WeatherDone /\ TripLen >= 1 /\ NDays > TripLen) =>
        /\ IndexOfDate(weather.best_window[1]) = ArgFirstMax(AllStarts)
        /\ IndexOfDate(weather.worst_window[1]) = ArgFirstMin(AllStarts)

\* ---- the confidence rubric as the claims state it
\* Position (1-based) of flight k among the flights departing on or after
\* the best window's start date, in input order.
ClaimBestStart ==
    IF weather.best_window = NA THEN EmptyStr ELSE weather.best_window[1]

ClaimDeparts(k) == flights.options[k].departure_date >= ClaimBestStart

ClaimRank(k) == Cardinality({j \in 1..k : ClaimDeparts(j)})

ClaimConsidered == {k \in 1..Len(flights.options) :
                       ClaimDeparts(k) /\ ClaimRank(k) <= 5}

ClaimIdealFlight ==
    \E k \in ClaimConsidered :
        flights.options[k].price_usd <= profile.airfare_budget_soft

ClaimAcceptableFlight ==
    \E k \in ClaimConsidered :
        flights.options[k].price_usd <= profile.airfare_budget_hard

ClaimWeatherTerm ==
    CASE weather.storm_risk_days = 0 -> 3
      [] weather.storm_risk_days \in {1, 2} -> 1
      [] OTHER -> 0

ClaimFlightTerm ==
    CASE ClaimIdealFlight -> 3
      [] ~ClaimIdealFlight /\ ClaimAcceptableFlight -> 1
      [] OTHER -> 0

ClaimHotelInBudget(k) ==
    /\ hotels.options[k].nightly_rate >= profile.hotel_budget_min
    /\ hotels.options[k].nightly_rate <= profile.hotel_budget_max

ClaimHotelTerm ==
    CASE \E k \in 1..Len(hotels.options) :
            /\ ClaimHotelInBudget(k)
            /\ hotels.options[k].brand \in profile.preferred_hotel_brands -> 3
      [] \E k \in 1..Len(hotels.options) : ClaimHotelInBudget(k) -> 1
      [] OTHER -> 0

ClaimTotal == ClaimWeatherTerm + ClaimFlightTerm + ClaimHotelTerm

ClaimLabel(total) ==
    CASE total >= 7 -> "High"
      [] total \in 4..6 -> "Medium"
      [] total <= 3 -> "Low"

\* C2: the confidence is one of High, Medium, Low and equals the label of
\* weather term + flight term + hotel term (each 3, 1 or 0 as stated):
\* >= 7 High, 4..6 Medium, <= 3 Low.
C2_ConfidenceRubric ==
    Done => /\ recommendation.confidence \in {"High", "Medium", "Low"}
            /\ recommendation.confidence = ClaimLabel(ClaimTotal)

\* C2 witness: one storm day, an ideal flight and an ideal hotel: 1 + 3 + 3
C2_Witness ==
    /\ Done
    /\ weather.storm_risk_days = 1
    /\ ClaimFlightTerm = 3 /\ ClaimHotelTerm = 3
    /\ recommendation.confidence = "High"

\* ---- the weather score as the claim states it (tenths of a point)
ClaimInRange(d) ==
    /\ d.high_f >= profile.preferred_temp_min_f
    /\ d.high_f <= profile.preferred_temp_max_f

ClaimDegreesOutside(d) ==
    Max2(profile.preferred_temp_min_f - d.high_f, 0)
    + Max2(d.high_f - profile.preferred_temp_max_f, 0)

ClaimDayTerms(d) ==
    (IF ClaimInRange(d) THEN 100 ELSE - 15 * ClaimDegreesOutside(d))
    - (IF d.is_storm_risk THEN 50 * profile.comfort_priority ELSE 0)
    - (IF d.precipitation_pct > 40 THEN 6 * profile.comfort_priority ELSE 0)
    + (CASE d.wind_mph > 20 -> -50
         [] d.wind_mph < 10 -> 20
         [] OTHER -> 0)

RECURSIVE ClaimSum(_, _)
ClaimSum(w, k) == IF k = 0 THEN 0 ELSE ClaimSum(w, k - 1) + ClaimDayTerms(w[k])

ClaimPlainDay(d) ==
    /\ ClaimInRange(d) /\ ~d.is_storm_risk
    /\ d.precipitation_pct <= 40
    /\ d.wind_mph >= 10 /\ d.wind_mph <= 20

\* Every contiguous window of the forecast
ForecastWindows ==
    {Slice(forecasts, i, j) : i \in 0..NDays, j \in 0..NDays}

\* C3: _score_weather_window is the sum over the window's days of the
\* temperature, storm, rain and wind terms; a window of plain days (high in
\* range, no storm, precipitation <= 40, wind in [10,20]) scores 10 x length.
\* Stated of the state analyze_weather leaves (pc = "flights"), for every
\* contiguous window of its forecast; the score the window search kept for
\* the best window is that sum too.
C3_WindowScoreFormula ==
    /\ pc = "flights" =>
          \A w \in ForecastWindows :
             /\ _score_weather_window(w, profile) = ClaimSum(w, Len(w))
             /\ (\A k \in 1..Len(w) : ClaimPlainDay(w[k]))
                   => _score_weather_window(w, profile) = 10 * WScale * Len(w)
    /\ (pc = "flights" /\ scan.scanned) =>
          LET w == Slice(forecasts, scan.best_start, scan.best_start + TripLen)
          IN  scan.best_score = ClaimSum(w, Len(w))

\* C3 witness: the search scored a window whose first day is out of range,
\* storm-flagged, rainy and windy
C3_Witness ==
    /\ pc = "flights" /\ scan.scanned /\ scan.best_start = 0
    /\ ~ClaimInRange(forecasts[1]) /\ forecasts[1].is_storm_risk
    /\ forecasts[1].precipitation_pct > 40 /\ forecasts[1].wind_mph > 20

\* ---- the hotel score as the claim states it (hundredths of a point)
ClaimBudgetTerm(h) ==
    CASE h.nightly_rate >= profile.hotel_budget_min
         /\ h.nightly_rate <= profile.hotel_budget_max -> 3000
      [] h.nightly_rate < profile.hotel_budget_min -> 1000
      [] OTHER -> Max2(0, 2500 - 30 * (h.nightly_rate - profile.hotel_budget_max))

ClaimHotelScore(h) ==
    ClaimBudgetTerm(h)
    + (IF h.brand \in profile.preferred_hotel_brands THEN 2000 ELSE 0)
    + Max2(0, 125 * (h.rating - 30))
    + (IF h.has_storm_discount /\ profile.comfort_priority >= 7 THEN -1500 ELSE 0)

\* The scenario hotel: rate 160, preferred brand, rating 4.3, no discount
ScenarioHotel(h) ==
    /\ h.nightly_rate = 160 /\ h.brand \in profile.preferred_hotel_brands
    /\ h.rating = 43 /\ ~h.has_storm_discount

\* C4: _score_hotel = budget term + brand term + quality term + anomaly
\* term as stated; the scenario hotel under budget [120,250] scores 66.25.
C4_HotelScoreFormula ==
    HotelsDone =>
        \A k \in 1..Len(hotels.options) :
            LET h == hotels.options[k]
            IN  /\ _score_hotel(h, profile) = ClaimHotelScore(h)
                /\ (/\ ScenarioHotel(h)
                    /\ profile.hotel_budget_min = 120
                    /\ profile.hotel_budget_max = 250)
                      => _score_hotel(h, profile) = 6625

\* C4 witness: the evaluated list holds the scenario hotel, a hotel over
\* budget and a storm-discounted hotel for a comfort-sensitive traveler
C4_Witness ==
    /\ HotelsDone
    /\ profile.hotel_budget_min = 120 /\ profile.hotel_budget_max = 250
    /\ profile.comfort_priority >= 7
    /\ \E k \in 1..Len(hotels.options) : ScenarioHotel(hotels.options[k])
    /\ \E k \in 1..Len(hotels.options) :
          hotels.options[k].nightly_rate > profile.hotel_budget_max
    /\ \E k \in 1..Len(hotels.options) : hotels.options[k].has_storm_discount

\* C5: the options of evaluate_hotels are a permutation of the input, in
\* non-increasing score order, equal scores in input order (a hotel's name
\* is its input position).
C5_StableDescendingPermutation ==
    (HotelsDone /\ hotels_raw # <<>>) =>
        LET out == hotels.options
            Sc(k) == _score_hotel(out[k], profile)
        IN  /\ Len(out) = Len(hotels_raw)
            /\ \A k \in 1..Len(hotels_raw) :
                  Cardinality({j \in 1..Len(out) : out[j] = hotels_raw[k]}) = 1
            /\ \A a, b \in 1..Len(out) :
                  a < b => /\ Sc(a) >= Sc(b)
                           /\ Sc(a) = Sc(b) => out[a].name < out[b].name

\* C5 witness: the sort moved a hotel forward and kept a tie in input order
C5_Witness ==
    /\ HotelsDone /\ Len(hotels_raw) >= 3
    /\ hotels.options # hotels_raw
    /\ \E a, b \in 1..Len(hotels.options) :
          /\ a < b
          /\ _score_hotel(hotels.options[a], profile)
               = _score_hotel(hotels.options[b], profile)

\* The considered flights, in input order
ClaimConsideredSeq ==
    [r \in 1..Cardinality(ClaimConsidered) |->
        flights.options[CHOOSE k \in ClaimConsidered : ClaimRank(k) = r]]

IsFlightClause(c) ==
    c.clause \in {"flights_ideal", "flights_hard", "flights_none"}

FlightClauses == SelectSeq(recommendation.reasoning, IsFlightClause)

\* C6: the flights considered are the first 5, in input order, of those
\* departing on or after the best window's start; ideal iff price <= soft,
\* acceptable iff price <= hard; the flight verdict (3 / 1 / 0) is decided
\* by the considered flights only.
C6_FirstFiveFlights ==
    Done =>
        LET ff == FlightFit(profile, weather, flights)
        IN  /\ ff.window_flights = ClaimConsideredSeq
            /\ \A k \in 1..Len(ff.window_flights) :
                  LET x == ff.window_flights[k]
                      InSeq(sq) == \E j \in 1..Len(sq) : sq[j] = x
                  IN  /\ InSeq(ff.ideal_flights)
                         <=> x.price_usd <= profile.airfare_budget_soft
                      /\ InSeq(ff.affordable_flights)
                         <=> x.price_usd <= profile.airfare_budget_hard
            /\ Len(FlightClauses) = 1
            /\ FlightClauses[1].clause =
                  (CASE ClaimFlightTerm = 3 -> "flights_ideal"
                     [] ClaimFlightTerm = 1 -> "flights_hard"
                     [] OTHER -> "flights_none")
            /\ recommendation.confidence =
                  ClaimLabel(ClaimWeatherTerm + ClaimFlightTerm + ClaimHotelTerm)

\* C6 witness: six flights depart in the window, only the sixth is within
\* budget, and the verdict is "no flights within budget"
C6_Witness ==
    /\ Done
    /\ Cardinality({k \in 1..Len(flights.options) : ClaimDeparts(k)}) >= 6
    /\ \E k \in 1..Len(flights.options) :
          /\ ClaimDeparts(k) /\ ClaimRank(k) = 6
          /\ flights.options[k].price_usd <= profile.airfare_budget_soft
    /\ FlightClauses[1].clause = "flights_none"

\* ---- alternatives
AltStart(k) == IndexOfDate(recommendation.alternative_windows[k].window[1])

AltStarts == {AltStart(k) : k \in 1..Len(recommendation.alternative_windows)}

\* Days of the window of L days starting at Python index i
WindowDays(i) == {forecasts[k] : k \in (i + 1)..(i + TripLen)}

StormFreeWindow(i) ==
    /\ \A d \in WindowDays(i) : ~d.is_storm_risk
    /\ Cardinality({d \in WindowDays(i) : d.precipitation_pct > 40}) <= 2

BestStartDate == weather.best_window[1]

ClaimCandidates ==
    {i \in AllStarts : forecasts[i + 1].date # BestStartDate /\ StormFreeWindow(i)}

ClaimFirstTwo ==
    {i \in ClaimCandidates :
        Cardinality({j \in ClaimCandidates : j < i}) < 2}

\* C7: over ALL start indices 0..n-L, the alternatives are exactly the first
\* min(2, number of candidates) candidate windows in forecast order, so the
\* list is non-empty whenever a candidate window exists.
C7_AlternativesOverAllStarts ==
    (Done /\ TripLen >= 1 /\ NDays > TripLen) =>
        /\ AltStarts = ClaimFirstTwo
        /\ Len(recommendation.alternative_windows) = Cardinality(ClaimFirstTwo)
        /\ ClaimCandidates # {} => recommendation.alternative_windows # <<>>

RejKinds ==
    [k \in 1..Len(recommendation.rejected_options) |->
        recommendation.rejected_options[k].kind]

HasRejection(kind) == \E k \in 1..Len(RejKinds) : RejKinds[k] = kind

RejOrder(kind) ==
    CASE kind = "storm" -> 1 [] kind = "budget" -> 2 [] kind = "temperature" -> 3

ClaimHotDays ==
    Cardinality({k \in 1..NDays :
                    forecasts[k].high_f > profile.preferred_temp_max_f + 5})

C10_BudgetRejectionIffMeanExceeds ==
    (Done /\ flights_raw # <<>>) =>
        (HasRejection("budget")
            <=> SumSeq(Prices(flights_raw))
                    > profile.airfare_budget_hard * Len(flights_raw))

\* ---------------------------------------------------------------- C11
FlightsDone == pc = "hotels"

IsBudgetClause(c) == c.clause \in {"under_soft", "under_hard", "all_exceed"}

BudgetClauses == SelectSeq(flights.summary, IsBudgetClause)

\* Number of offered flights priced at or under a ceiling
ClaimAtOrUnder(limit) ==
    Cardinality({k \in 1..Len(flights_raw) : flights_raw[k].price_usd <= limit})

ClaimAllAbove(limit) ==
    \A k \in 1..Len(flights_raw) : flights_raw[k].price_usd > limit

AllExceedEmitted == \E k \in 1..Len(flights.summary) : flights.summary[k].clause = "all_exceed"

\* Exactly one budget clause, chosen in the priority order soft count, hard
\* count, all-exceed warning
ClaimBudgetPriority ==
    /\ Len(BudgetClauses) = 1
    /\ LET c == BudgetClauses[1]
           soft == ClaimAtOrUnder(profile.airfare_budget_soft)
           hard == ClaimAtOrUnder(profile.airfare_budget_hard)
       IN  IF soft > 0 THEN c.clause = "under_soft" /\ c.n = soft
           ELSE IF hard > 0 THEN c.clause = "under_hard" /\ c.n = hard
           ELSE c.clause = "all_exceed"

AllAboveHard ==
    /\ Done
    /\ flights_raw # <<>>
    /\ ClaimAllAbove(profile.airfare_budget_hard)

\* The narrative warns that all options exceed the hard budget (the clause
\* that suggests other dates or a connection); no flight is ideal or
\* acceptable: the rationale reports none within budget, and the label is
\* that of the weather and hotel terms alone.
ClaimNoFlightFits ==
    /\ AllExceedEmitted
    /\ BudgetClauses = <<Clause("all_exceed", 0, profile.airfare_budget_hard, 0)>>
    /\ FlightClauses = <<Clause("flights_none", 0, profile.airfare_budget_hard, 0)>>
    /\ recommendation.confidence = ClaimLabel(ClaimWeatherTerm + 0 + ClaimHotelTerm)

WeatherReturned == pc = "flights"

ClaimWindowLength == IF NDays >= TripLen THEN TripLen ELSE NDays

\* The window string names a first and a last date of the forecast, in
\* order, and the days from the first to the last are as many as claimed
\* (forecast dates are consecutive, so the days between are the run).
ClaimRunInside(w) ==
    /\ HasTo(w)
    /\ \E i \in 1..NDays, j \in 1..NDays :
          /\ forecasts[i].date = w[1]
          /\ forecasts[j].date = w[2]
          /\ i <= j
          /\ j - i + 1 = ClaimWindowLength

\* C13: for a non-empty forecast of n days and L >= 1, the best and the
\* worst window are each a contiguous run of forecast days inside the
\* forecast, of exactly L days when n >= L and of exactly n days when n < L.
C13_WindowsInsideForecast ==
    (WeatherReturned /\ forecasts # <<>> /\ TripLen >= 1) =>
        /\ ClaimRunInside(weather.best_window)
        /\ ClaimRunInside(weather.worst_window)

\* A scanned forecast (n > L >= 2) whose best and worst windows differ
C13_Witness ==
    /\ WeatherReturned
    /\ TripLen >= 2
    /\ NDays > TripLen + 1
    /\ scan.scanned
    /\ weather.best_window # weather.worst_window
    /\ weather.worst_window[2] - weather.worst_window[1] + 1 = TripLen

\* ---------------------------------------------------------------- C14
\* C14: for a non-empty forecast of n <= trip_length_nights days,
\* best_window and worst_window are equal and span the first to the last
\* forecast date (start index 0), and no window was scored.
C14_ShortForecastWholeWindow ==
    (WeatherReturned /\ forecasts # <<>> /\ NDays <= TripLen) =>
        /\ weather.best_window = weather.worst_window
        /\ weather.best_window =
              WindowStr(forecasts[1].date, forecasts[NDays].date)
        /\ scan = NoScan

\* A forecast of two or more days, exactly as long as the trip and with a
\* storm day in it
C14_Witness ==
    /\ WeatherReturned
    /\ NDays >= 2
    /\ NDays = TripLen
    /\ CountStorm(forecasts) > 0
    /\ weather.best_window = WindowStr(1, NDays)
    /\ ~scan.scanned

\* ---------------------------------------------------------------- C15
\* C15: empty input is not an error, for every profile.  analyze_weather on
\* an empty forecast returns zero averages, zero rainy and storm counts,
\* the window "N/A" for best and worst and the "no forecast data"
\* narrative; analyze_flights on an empty list returns cheapest and average
\* price 0, no options and "No flights found."; evaluate_hotels on an empty
\* list returns no options and "No hotels found."; none of the three raises.
C15_EmptyInputIsNotAnError ==
    /\ (forecasts = <<>> /\ pc # "weather") =>
          /\ pc # "raised"
          /\ weather.avg_high_f = 0 /\ weather.avg_low_f = 0
          /\ weather.rainy_days = 0 /\ weather.storm_risk_days = 0
          /\ weather.best_window = NA /\ weather.worst_window = NA
          /\ ~HasTo(weather.best_window)
          /\ weather.summary = <<Clause("No forecast data available.", 0, 0, 0)>>
    /\ (flights_raw = <<>> /\ pc \in {"hotels", "synthesize", "done"}) =>
          /\ flights.cheapest_price = 0 /\ flights.average_price = 0
          /\ flights.options = <<>>
          /\ flights.summary = <<Clause("No flights found.", 0, 0, 0)>>
    /\ (hotels_raw = <<>> /\ pc \in {"synthesize", "done"}) =>
          /\ hotels.options = <<>>
          /\ hotels.summary = <<Clause("No hotels found.", 0, 0, 0)>>

\* All three inputs empty, under a malformed profile, and the run finished
C15_Witness ==
    /\ Done
    /\ forecasts = <<>> /\ flights_raw = <<>> /\ hotels_raw = <<>>
    /\ profile.trip_length_nights < 0
    /\ profile.hotel_budget_min > profile.hotel_budget_max
    /\ recommendation.weather_summary = weather.summary
    /\ recommendation.recommended_window = NA

\* ---------------------------------------------------------------- C16
\* C16: no operation of the pipeline raises for any well-typed input,
\* malformed-but-typed profiles (trip_length_nights <= 0, soft ceiling above
\* hard ceiling, hotel_budget_min above hotel_budget_max) and empty analysis
\* results included.
C16_NoOperationRaises == pc # "raised"

\* ---------------------------------------------------------------- C17
ClaimStoredKeys == {"alex", "jordan", "sam"}

ClaimUnrecognized(id) == Lower(id) \notin ClaimStoredKeys

\* No forecast, flight, hotel or synthesis step has produced a result
ClaimNoStepRan ==
    /\ weather = <<>> /\ scan = NoScan
    /\ flights = <<>>
    /\ hotels = <<>>
    /\ recommendation = <<>>

\* C17: get_profile returns None for every identifier whose lower-cased
\* form is not a stored key; a tool called with such an identifier returns
\* an error record naming it and runs no forecast, flight, hotel or
\* synthesis step, with no substitute profile.
C17_UnknownTravelerIsSignaled ==
    /\ \A id \in UserIds : ClaimUnrecognized(id) => get_profile(id) = None
    /\ (pc # "call" /\ ClaimUnrecognized(user_id)) =>
          /\ pc = "error"
          /\ profile = None
          /\ response # None
          /\ response.error
          /\ response.user_id = user_id
          /\ ClaimNoStepRan

\* The pipeline tool called for a stranger, with a forecast it could have
\* analysed
C17_Witness ==
    /\ pc = "error"
    /\ tool = "synthesize_travel_recommendation"
    /\ user_id = "bob"
    /\ forecasts # <<>>
    /\ response = NotFound("bob", <<>>)

\* ---------------------------------------------------------------- C18
\* Low < Medium < High
LabelRank(label) ==
    CASE label = "Low" -> 0
      [] label = "Medium" -> 1
      [] label = "High" -> 2

ConfidenceRank(s, fo, fi, ho, hi) == LabelRank(_compute_confidence(s, fo, fi, ho, hi))

\* The arguments synthesize_recommendation passed to _compute_confidence
RunFlightOk == Len(FlightFit(profile, weather, flights).affordable_flights) > 0

RunFlightIdeal == Len(FlightFit(profile, weather, flights).ideal_flights) > 0

RunHotelOk == Len(HotelFit(profile, hotels).budget_hotels) > 0

RunHotelIdeal == Len(HotelFit(profile, hotels).brand_hotels) > 0

\* C18: the label is monotonic non-decreasing in each sub-term on its own.
\* At the storm count of the run and for all four flags: fewer storm days
\* never lower the label and one more never raises it, and turning
\* flight_ok, flight_ideal, hotel_ok or hotel_ideal from false to true
\* never lowers it; the run's own label is the one of its arguments.
C18_ConfidenceMonotonic ==
    Done =>
      LET s == weather.storm_risk_days
      IN  /\ recommendation.confidence =
                _compute_confidence(s, RunFlightOk, RunFlightIdeal,
                                    RunHotelOk, RunHotelIdeal)
          /\ \A fo, fi, ho, hi \in BOOLEAN :
                LET base == ConfidenceRank(s, fo, fi, ho, hi)
                IN  /\ \A t \in 0..s : ConfidenceRank(t, fo, fi, ho, hi) >= base
                    /\ ConfidenceRank(s + 1, fo, fi, ho, hi) <= base
                    /\ ConfidenceRank(s, TRUE, fi, ho, hi) >= base
                    /\ ConfidenceRank(s, fo, TRUE, ho, hi) >= base
                    /\ ConfidenceRank(s, fo, fi, TRUE, hi) >= base
                    /\ ConfidenceRank(s, fo, fi, ho, TRUE) >= base

\* A run with three storm days labelled Medium that one storm day fewer
\* would have labelled High
C18_Witness ==
    /\ Done
    /\ weather.storm_risk_days = 3
    /\ recommendation.confidence = "Medium"
    /\ _compute_confidence(2, RunFlightOk, RunFlightIdeal,
                           RunHotelOk, RunHotelIdeal) = "High"

\* ---------------------------------------------------------------- C19
ClaimHighOutside(d) ==
    d.high_f < profile.preferred_temp_min_f \/ d.high_f > profile.preferred_temp_max_f

\* Day k of window w with its high moved delta degrees further from the
\* preferred range; every other field of every day is kept
ClaimFurtherOut(w, k, delta) ==
    [w EXCEPT ![k].high_f =
        IF w[k].high_f > profile.preferred_temp_max_f
        THEN w[k].high_f + delta ELSE w[k].high_f - delta]

\* C19: when a day's high is already outside the preferred range and is
\* moved one or more degrees further outside, all else unchanged,
\* _score_weather_window strictly decreases, by exactly 1.5 per degree.
\* Stated of the state analyze_weather leaves, for every contiguous window
\* of its forecast and every day of the window.
C19_FurtherOutScoresLower ==
    WeatherReturned =>
      \A w \in ForecastWindows : \A k \in 1..Len(w) : \A delta \in 1..MaxDelta :
         ClaimHighOutside(w[k]) =>
            LET moved == ClaimFurtherOut(w, k, delta)
            IN  /\ _score_weather_window(moved, profile)
                      < _score_weather_window(w, profile)
                /\ _score_weather_window(moved, profile)
                      = _score_weather_window(w, profile) - 15 * delta

\* A forecast with a day below the range followed by a day above it; both
\* lose 1.5 points per degree moved
C19_Witness ==
    /\ WeatherReturned
    /\ NDays = 2
    /\ forecasts[1].high_f < profile.preferred_temp_min_f
    /\ forecasts[2].high_f > profile.preferred_temp_max_f
    /\ _score_weather_window(ClaimFurtherOut(forecasts, 1, 2), profile)
          = _score_weather_window(forecasts, profile) - 30
    /\ _score_weather_window(ClaimFurtherOut(forecasts, 2, 2), profile)
          = _score_weather_window(forecasts, profile) - 30

\* ---------------------------------------------------------------- C20
\* Window w with the storm flag of day k cleared
ClaimStormCleared(w, k) == [w EXCEPT ![k].is_storm_risk = FALSE]

\* The precipitation term of a day as the code computes it: the day's score
\* less its score without rain
ClaimRainTerm(d) == DayScore(d, profile) - DayScore([d EXCEPT !.precipitation_pct = 0], profile)

\* C20: two windows identical except that one day is storm-flagged in the
\* first and not in the second: the first scores strictly lower, by exactly
\* 5 x comfort_priority (45 points for comfort 9), and that day's
\* precipitation term is the same in both.
C20_StormDayCostsFiveComfort ==
    WeatherReturned =>
      \A w \in ForecastWindows : \A k \in 1..Len(w) :
         w[k].is_storm_risk =>
            LET clear == ClaimStormCleared(w, k)
            IN  /\ _score_weather_window(w, profile)
                      < _score_weather_window(clear, profile)
                /\ _score_weather_window(clear, profile)
                      - _score_weather_window(w, profile)
                      = 5 * profile.comfort_priority * WScale
                /\ profile.comfort_priority = 9 =>
                      _score_weather_window(clear, profile)
                      - _score_weather_window(w, profile) = 45 * WScale
                /\ ClaimRainTerm(w[k]) = ClaimRainTerm(clear[k])

\* The scenario: comfort 9, range 72-85, a five-day window with exactly one
\* storm day, which is rainy too
C20_Witness ==
    /\ WeatherReturned
    /\ profile.comfort_priority = 9
    /\ profile.preferred_temp_min_f = 72 /\ profile.preferred_temp_max_f = 85
    /\ NDays = 5
    /\ CountStorm(forecasts) = 1
    /\ forecasts[3].is_storm_risk /\ forecasts[3].precipitation_pct > 40
    /\ _score_weather_window(ClaimStormCleared(forecasts, 3), profile)
          - _score_weather_window(forecasts, profile) = 450

\* ---------------------------------------------------------------- C21
\* Profiles with other budget ceilings than the run's
OtherCeilings == {Alex(1, 6), Jordan(1, 6), Sam(1, 6)}

ClaimIsMinPrice(m) ==
    /\ \E k \in 1..Len(flights_raw) : flights_raw[k].price_usd = m
    /\ \A k \in 1..Len(flights_raw) : flights_raw[k].price_usd >= m

ClaimTotalPrice == SumSeq([k \in 1..Len(flights_raw) |-> flights_raw[k].price_usd])

\* a is the average of the offered prices: a = total / n
ClaimIsAveragePrice(a) == Len(flights_raw) * a = ClaimTotalPrice

\* a is the average of the offered prices with the fraction of a dollar dropped
ClaimIsWholeDollarAverage(a) ==
    /\ Len(flights_raw) * a <= ClaimTotalPrice
    /\ ClaimTotalPrice < Len(flights_raw) * (a + 1)

ClaimSameUnderOtherCeilings ==
    \A q \in OtherCeilings :
        /\ analyze_flights(flights_raw, q).cheapest_price = flights.cheapest_price
        /\ analyze_flights(flights_raw, q).average_price = flights.average_price
        /\ analyze_flights(flights_raw, q).options = flights.options

\* What does hold of the statistics: the minimum and the whole-dollar
\* average of the complete list, whatever the ceilings, options untouched
ClaimWholeDollarStatistics ==
    (FlightsDone /\ flights_raw # <<>>) =>
        /\ ClaimIsMinPrice(flights.cheapest_price)
        /\ ClaimIsWholeDollarAverage(flights.average_price)
        /\ flights.options = flights_raw
        /\ ClaimSameUnderOtherCeilings

\* C21: for a non-empty flight list cheapest_price is the minimum price and
\* average_price the average price over the complete offered list, the same
\* under any budget ceilings, and the options returned are the complete
\* input list in input order.
C21_StatisticsOverCompleteList ==
    (FlightsDone /\ flights_raw # <<>>) =>
        /\ ClaimIsMinPrice(flights.cheapest_price)
        /\ ClaimIsAveragePrice(flights.average_price)
        /\ flights.options = flights_raw
        /\ ClaimSameUnderOtherCeilings

\* ---------------------------------------------------------------- C22
IsRedEyeClause(c) == c.clause = "red_eye"

RedEyeClauses == SelectSeq(flights.summary, IsRedEyeClause)

ClaimRedEyes == {k \in 1..Len(flights_raw) : flights_raw[k].is_red_eye}

\* C22: for a non-empty flight list the narrative carries the red-eye
\* caveat if and only if some flight is a red-eye and comfort_priority >= 7,
\* and the price cited is the minimum over the red-eye flights only,
\* whichever budget clause was chosen.
C22_RedEyeCaveat ==
    (FlightsDone /\ flights_raw # <<>>) =>
        /\ Len(RedEyeClauses) <= 1
        /\ Len(RedEyeClauses) = 1 <=>
              (ClaimRedEyes # {} /\ profile.comfort_priority >= 7)
        /\ Len(RedEyeClauses) = 1 =>
              /\ \E k \in ClaimRedEyes : flights_raw[k].price_usd = RedEyeClauses[1].a
              /\ \A k \in ClaimRedEyes : flights_raw[k].price_usd >= RedEyeClauses[1].a
        /\ Len(BudgetClauses) = 1

\* A comfort-7 traveler, a daytime flight cheaper than every red-eye, and
\* the all-exceed budget clause beside the caveat
C22_Witness ==
    /\ FlightsDone
    /\ profile.comfort_priority = 7
    /\ ClaimRedEyes # {}
    /\ Len(RedEyeClauses) = 1
    /\ RedEyeClauses[1].a = 700
    /\ flights.cheapest_price = 651
    /\ BudgetClauses[1].clause = "all_exceed"

\* ---------------------------------------------------------------- C23
\* Travelers differing in trip length, temperature range and comfort
OtherTravelers ==
    {Alex(t, 6) : t \in 1..MaxTrip} \cup {Jordan(t, 9) : t \in 1..MaxTrip}
        \cup {Sam(t, 8) : t \in 1..MaxTrip}

ClaimStatistics(w) ==
    <<w.avg_high_f, w.avg_low_f, w.rainy_days, w.storm_risk_days>>

\* a is the whole-degree average of the readings totalling total
ClaimIsAverageOver(a, total) ==
    NDays * a <= total /\ total < NDays * (a + 1)

ClaimFullForecastStatistics ==
    /\ weather.rainy_days =
          Cardinality({k \in 1..NDays : forecasts[k].precipitation_pct > 40})
    /\ weather.storm_risk_days =
          Cardinality({k \in 1..NDays : forecasts[k].is_storm_risk})
    /\ ClaimIsAverageOver(weather.avg_high_f,
                          SumSeq([k \in 1..NDays |-> forecasts[k].high_f]))
    /\ ClaimIsAverageOver(weather.avg_low_f,
                          SumSeq([k \in 1..NDays |-> forecasts[k].low_f]))

\* C23: the aggregate statistics of analyze_weather (avg_high_f, avg_low_f,
\* rainy_days = days with precipitation_pct > 40, storm_risk_days = storm
\* days) are taken over the full forecast, and any other profile (other trip
\* length, preferences, hence other best and worst windows) gets the same
\* statistics for the same forecast.
C23_StatisticsIndependentOfProfile ==
    (WeatherReturned /\ forecasts # <<>>) =>
        /\ ClaimFullForecastStatistics
        /\ \A q \in OtherTravelers :
              ClaimStatistics(analyze_weather(forecasts, q)) = ClaimStatistics(weather)

\* A forecast whose best window holds none of its rainy and storm days, and
\* another traveler for whom other windows are selected
C23_Witness ==
    /\ WeatherReturned
    /\ NDays = MaxDays
    /\ weather.storm_risk_days = 1 /\ weather.rainy_days = 2
    /\ CountStorm(Slice(forecasts, scan.best_start,
                        scan.best_start + TripLen)) = 0
    /\ \E q \in OtherTravelers :
          /\ analyze_weather(forecasts, q).best_window # weather.best_window
          /\ analyze_weather(forecasts, q).worst_window # weather.worst_window

\* ---------------------------------------------------------------- C24
\* Other flight and hotel lists the same call could have been given the
\* results of
OtherFlightLists == {<<>>, CheapFlights, MidFlights, DearFlights}

OtherHotelLists == {<<>>, SomeHotels}

ClaimWindowWith(f, h) ==
    ~synthesize_recommendation_raises(profile, weather, f, h) =>
        synthesize_recommendation(profile, weather, f, h).recommended_window
            = weather.best_window

ClaimWindowWhateverTheRest ==
    \A fl \in OtherFlightLists, hs \in OtherHotelLists :
        ClaimWindowWith(analyze_flights(fl, profile), evaluate_hotels(hs, profile))

ClaimSynthesisReturns == pc = "synthesize" /\ pc' = "done"

\* C24: a returning synthesize_recommendation copies its inputs verbatim:
\* recommended_window is weather.best_window whatever the flight and hotel
\* results are, the three summaries are those of the three inputs, and the
\* weather, flight and hotel results passed in are left as they were.
C24_SynthesisCopiesInputsVerbatim ==
    [][ClaimSynthesisReturns =>
          /\ recommendation'.recommended_window = weather.best_window
          /\ ClaimWindowWhateverTheRest
          /\ recommendation'.weather_summary = weather.summary
          /\ recommendation'.flight_summary = flights.summary
          /\ recommendation'.hotel_summary = hotels.summary
          /\ UNCHANGED <<weather, flights, hotels>>]_vars

\* A finished run whose window is a date range after the first flight's
\* departure, with non-empty flight and hotel results
C24_Witness ==
    /\ Done
    /\ HasTo(recommendation.recommended_window)
    /\ recommendation.recommended_window[1] > 1
    /\ Len(flights.options) = 2
    /\ Len(FlightFit(profile, weather, flights).window_flights) < 2
    /\ hotels.options # <<>>
    /\ recommendation.flight_summary = flights.summary

\* ---------------------------------------------------------------- C25
\* The forecast days dated between the best window's start and end dates
ClaimBestWindowDays ==
    LET Between(d) == /\ d.date >= weather.best_window[1]
                      /\ d.date <= weather.best_window[2]
    IN  SelectSeq(weather.daily_forecasts, Between)

ClaimRoundTrip == _score_weather_window(ClaimBestWindowDays, profile) = scan.best_score

\* The round trip for trips of at least one night
ClaimRoundTripFromOneNight ==
    (WeatherReturned /\ NDays > TripLen /\ TripLen >= 1) => ClaimRoundTrip

\* C25: for every forecast longer than trip_length_nights and every
\* profile, scoring the forecast days between the best window's start and
\* end dates with _score_weather_window gives exactly the maximum score of
\* the scan that selected the window.
C25_BestWindowRoundTrip ==
    (WeatherReturned /\ NDays > TripLen) => ClaimRoundTrip

\* ---------------------------------------------------------------- C26
\* A run during which the other run took no step returns what it returns
\* run alone
ClaimUndisturbed ==
    \A r \in Runs :
        (pc[r] = "done" /\ \A o \in Runs \ {r} : pc[o] = "get_forecast") =>
            recommendation[r] = RunAlone(profile[r])

\* C26: of two pipelines run in parallel for different travelers, with
\* their steps interleaved in any order, each returns the recommendation it
\* returns when run alone.
C26_ParallelRunsReturnAsAlone ==
    \A r \in Runs :
        pc[r] = "done" => recommendation[r] = RunAlone(profile[r])

\* ---------------------------------------------------------------- C27
\* The stages of the pipeline in the order of the code
StageRank(l) ==
    CASE l = "weather" -> 1
      [] l = "flights" -> 2
      [] l = "hotels" -> 3
      [] l = "synthesize" -> 4
      [] l = "done" -> 5
      [] OTHER -> 0

\* Each result is produced by its own stage and by no other step
ClaimOneStagePerResult ==
    /\ (pc = "weather") <=> (weather' # weather)
    /\ (pc = "flights") <=> (flights' # flights)
    /\ (pc = "hotels") <=> (hotels' # hotels)
    /\ (pc = "synthesize") <=> (recommendation' # recommendation)

\* Each stage is called on the one profile and on the earlier results
ClaimStageInputs ==
    /\ pc = "weather" => weather' = analyze_weather(forecasts, profile)
    /\ pc = "flights" => flights' = analyze_flights(flights_raw, profile)
    /\ pc = "hotels" =>
          /\ hotels' = evaluate_hotels(hotels_raw, profile)
          /\ HasTo(weather.best_window) => check_in' = weather.best_window[1]
    /\ pc = "synthesize" =>
          recommendation' = synthesize_recommendation(profile, weather, flights, hotels)

\* C27: for a known user the pipeline is strictly linear: every step moves
\* to the next stage in the order weather, flights, hotels, synthesis, so
\* each runs exactly once and none is re-run; all are given the same
\* profile; the hotel search starts on the start date of the weather
\* result's best window; synthesize_recommendation runs once, last, on the
\* three results.
C27_LinearControlFlow ==
    [][/\ StageRank(pc) >= 1
       /\ StageRank(pc') = StageRank(pc) + 1
       /\ profile' = profile
       /\ ClaimOneStagePerResult
       /\ ClaimStageInputs]_vars

\* A finished run whose best window starts after the first forecast day
\* and not where the worst window starts
C27_Witness ==
    /\ Done
    /\ weather # <<>> /\ flights # <<>> /\ hotels # <<>>
    /\ HasTo(weather.best_window)
    /\ check_in = weather.best_window[1]
    /\ check_in > weather_start_date
    /\ weather.worst_window[1] # check_in

\* ---------------------------------------------------------------- C28
ClaimTerms == <<ClaimWeatherTerm, ClaimFlightTerm, ClaimHotelTerm>>

ClaimTermsAt(v) == {d \in 1..3 : ClaimTerms[d] = v}

ClaimSomeFlightWithinBudget ==
    \E k \in ClaimConsidered :
        \/ flights.options[k].price_usd <= profile.airfare_budget_soft
        \/ flights.options[k].price_usd <= profile.airfare_budget_hard

ClaimSomeHotelWithinBudget == \E k \in 1..Len(hotels.options) : ClaimHotelInBudget(k)

\* C28: 'High' is returned only when all three confidence terms are
\* non-zero and at least two of them are 3, hence only with at most two
\* storm days, a considered flight at or under the soft or the hard ceiling
\* and a hotel within the nightly budget; one term of 0 caps the label at
\* Medium.
C28_HighNeedsAllThreeDimensions ==
    Done =>
        /\ recommendation.confidence = "High" =>
              /\ ClaimTermsAt(0) = {}
              /\ Cardinality(ClaimTermsAt(3)) >= 2
              /\ weather.storm_risk_days <= 2
              /\ ClaimSomeFlightWithinBudget
              /\ ClaimSomeHotelWithinBudget
        /\ ClaimTermsAt(0) # {} => recommendation.confidence \in {"Medium", "Low"}

\* 'High' on seven points: a storm day in the forecast beside an ideal
\* flight and a hotel of a preferred brand within budget
C28_Witness ==
    /\ Done
    /\ recommendation.confidence = "High"
    /\ ClaimTerms = <<1, 3, 3>>
    /\ weather.storm_risk_days = 2

\* One term of 0 beside two terms of 3: six points, Medium
ClaimCappedAtMedium ==
    /\ Done
    /\ Cardinality(ClaimTermsAt(0)) = 1 /\ Cardinality(ClaimTermsAt(3)) = 2
    /\ recommendation.confidence = "Medium"

\* ---------------------------------------------------------------- C29
\* C29: when the weather input is the result for an empty forecast (best
\* window 'N/A', no storm days, no daily forecasts), the recommendation is
\* never given 'High' confidence, whatever the flights and hotels are.
C29_NoForecastNeverHigh ==
    (Done /\ weather = EmptyWeatherSummary) => recommendation.confidence # "High"

\* ---------------------------------------------------------------- C30
ClaimStormRejections ==
    {k \in 1..Len(recommendation.rejected_options) :
        recommendation.rejected_options[k].kind = "storm"}

\* C30: for a weather result from a non-empty forecast, whenever the storm
\* rejection of the worst window is emitted, the window it rejects is not
\* the date range that is recommended.
C30_RejectedIsNotRecommended ==
    (Done /\ forecasts # <<>>) =>
        \A k \in ClaimStormRejections :
            recommendation.rejected_options[k].window
                # recommendation.recommended_window

====
